---- MODULE Spec2Model ----
(***************************************************************************)
(* A model of SchemaFlattener (scripts/flatten_ndc_schemas.py): loading a  *)
(* corpus of schema documents, reachability over declarations, the prefix  *)
(* plan, and the emission of the main and common-namespace documents.      *)
(*                                                                         *)
(* A qualified name is a sequence of tokens: <<"cns", ":", "T">> is the    *)
(* text cns:T, <<"T">> is T and << >> is the empty string.  A namespace    *)
(* URI, a prefix, a file name and a declaration name are strings.          *)
(***************************************************************************)
EXTENDS Integers, Sequences, FiniteSets, TLC

\* ------------------------------------------------------------ bounds
\* The number of reference nodes appended to one declaration of a base corpus.
MaxExtra == 1

\* ------------------------------------------------------------ constants
XSD_NS == "http://www.w3.org/2001/XMLSchema"

\* Python's None and a missing XML attribute.
None == "<None>"
NoAttr == "<absent>"

\* The namespaces of the corpora.  The first five start with
\* "http://www.iata.org"; the last one of them contains "FullyOptional".
NsM == "http://www.iata.org/M"
NsM2 == "http://www.iata.org/M2"
Ns1 == "http://www.iata.org/N1"
Ns2 == "http://www.iata.org/N2"
NsOpt == "http://www.iata.org/N1/FullyOptional"
NsF == "http://www.w3.org/2000/09/xmldsig#"

\* ns.startswith('http://www.iata.org')
StartsWithIata(ns) == ns \in {NsM, NsM2, Ns1, Ns2, NsOpt}

\* 'FullyOptional' in ns
ContainsFullyOptional(ns) == ns \in {NsOpt}

\* The attributes whose value is a reference.
RefAttrs == <<"type", "base", "ref", "itemType", "substitutionGroup">>

\* The tags of the top-level declarations that are collected.
DefTags == {"complexType", "simpleType", "element", "group", "attributeGroup"}

\* ------------------------------------------------------------ sequences
Range(s) == {s[i] : i \in DOMAIN s}

RECURSIVE SeqOfSet(_)
\* The elements of a finite set of strings or tuples as some sequence
\* (used only where the order is fixed afterwards by sorting).
SeqOfSet(S) == IF S = {} THEN << >>
               ELSE LET x == CHOOSE y \in S : TRUE IN <<x>> \o SeqOfSet(S \ {x})

\* All orders in which the elements of a finite set can be iterated.
Perms(S) == {p \in [1..Cardinality(S) -> S] : \A x \in S : \E i \in DOMAIN p : p[i] = x}

\* The index of the first TRUE of the sequence of booleans bs, 0 when there
\* is none: where a loop with a test and a break stops.
FirstIndex(bs) ==
    IF \E i \in DOMAIN bs : bs[i]
    THEN CHOOSE i \in DOMAIN bs : bs[i] /\ \A j \in 1..(i-1) : ~bs[j]
    ELSE 0

\* A Python dict as the sequence of its <<key, value>> items in insertion order.
DictKeys(d) == {d[i][1] : i \in DOMAIN d}
DictHas(d, k) == \E i \in DOMAIN d : d[i][1] = k
DictGet(d, k) == d[CHOOSE i \in DOMAIN d : d[i][1] = k][2]
\* d[k] = v: an existing key keeps its position, a new key goes last.
DictSet(d, k, v) ==
    IF DictHas(d, k)
    THEN [i \in DOMAIN d |-> IF d[i][1] = k THEN <<k, v>> ELSE d[i]]
    ELSE Append(d, <<k, v>>)

\* The dict built by assigning the items one after the other: a key stands
\* where it was first assigned and holds the value assigned last.
DictFromItems(items) ==
    LET first == SelectSeq([i \in DOMAIN items |-> i],
                           LAMBDA i : \A j \in 1..(i - 1) : items[j][1] # items[i][1])
        LastOf(k) == CHOOSE i \in DOMAIN items :
                        items[i][1] = k /\ \A j \in (i + 1)..Len(items) : items[j][1] # k
    IN [n \in DOMAIN first |-> <<items[first[n]][1], items[LastOf(items[first[n]][1])][2]>>]

\* An update that keeps the value of a key d holds already.
DictUpdate_KeepOld(d, e) == d \o SelectSeq(e, LAMBDA item : ~DictHas(d, item[1]))

\* d.update(e), e a dict.
DictUpdate(d, e) ==
    [i \in DOMAIN d |-> IF DictHas(e, d[i][1]) THEN <<d[i][1], DictGet(e, d[i][1])>> ELSE d[i]]
      \o SelectSeq(e, LAMBDA item : ~DictHas(d, item[1]))

\* ------------------------------------------------------------ documents
\* A node of a declaration's subtree: one attribute and its value.  The nodes
\* of a declaration are listed in document order, the declaration itself first.
Node(attr, val) == [attr |-> attr, val |-> val]
\* The texts p:l and l.
Q(p, l) == <<p, ":", l>>
U(l) == <<l>>

\* A child of the schema root element.
Child(tag, name, ns, loc, nodes) ==
    [tag |-> tag, name |-> name, namespace |-> ns, schemaLocation |-> loc, nodes |-> nodes]
Decl(tag, name, nodes) == Child(tag, name, NoAttr, NoAttr, nodes)
Import(ns, loc) == Child("import", NoAttr, ns, loc, << >>)
Include(loc) == Child("include", NoAttr, NoAttr, loc, << >>)

\* A file of the source directory: whether ET.parse accepts it, the attributes
\* of its root, its namespace declarations in the order of the start-ns
\* events, and the children of its root.
File(tns, version, nsEvents, children) ==
    [parses |-> TRUE, targetNamespace |-> tns, version |-> version,
     nsEvents |-> nsEvents, children |-> children]
Malformed == [parses |-> FALSE, targetNamespace |-> NoAttr, version |-> NoAttr,
              nsEvents |-> << >>, children |-> << >>]

\* os.path.abspath(os.path.join(source_dir, filename)): a path is named by the
\* file name without a leading "./".
AbsPath(filename) == IF filename = "./a.xsd" THEN "a.xsd" ELSE filename

\* os.path.splitext(os.path.basename(output_path))[0]
BaseName(filename) ==
    CASE filename = "e.xsd" -> "e"
      [] filename = "e2.xsd" -> "e2"

\* The folder main makes for a message: the file name without its extension
\* and without a leading "IATA_".
FolderName(filename) == BaseName(filename)

\* A token sequence as one string; the texts of the corpora have at most one
\* token on each side of the first colon.
Join(toks) == CASE toks = << >> -> ""
                [] Len(toks) = 1 -> toks[1]

\* A Python value used as a condition: None, a missing attribute and the
\* empty string are false.
Truthy(v) == v \notin {None, NoAttr, ""}

split_qname(text) ==
    IF \E i \in DOMAIN text : text[i] = ":"
    THEN LET i == FirstIndex([j \in DOMAIN text |-> text[j] = ":"])
         IN <<Join(SubSeq(text, 1, i - 1)), Join(SubSeq(text, i + 1, Len(text)))>>
    ELSE <<None, Join(text)>>

\* prefix_map.get(prefix)
PrefixGet(prefix_map, prefix) ==
    IF DictHas(prefix_map, prefix) THEN DictGet(prefix_map, prefix) ELSE None

\* resolve_reference returning None.
NoKey == << >>

\* resolve_reference that resolves a value without a prefix by the binding of
\* the default namespace when the prefix map has one.
resolve_reference_Default(value, current_ns, prefix_map) ==
    IF value = << >> THEN NoKey
    ELSE LET prefix == split_qname(value)[1]
             local_name == split_qname(value)[2]
         IN IF Truthy(prefix)
            THEN LET ns == PrefixGet(prefix_map, prefix)
                 IN IF Truthy(ns) THEN <<ns, local_name>>
                    ELSE IF prefix = "xs" THEN <<XSD_NS, local_name>>
                    ELSE <<None, local_name>>
            ELSE IF DictHas(prefix_map, "") THEN <<DictGet(prefix_map, ""), local_name>>
            ELSE <<current_ns, local_name>>

\* The resolved key <<namespace, local name>>, or NoKey.
resolve_reference(value, current_ns, prefix_map) ==
    IF value = << >> THEN NoKey
    ELSE LET prefix == split_qname(value)[1]
             local_name == split_qname(value)[2]
         IN IF Truthy(prefix)
            THEN LET ns == PrefixGet(prefix_map, prefix)
                 IN IF Truthy(ns) THEN <<ns, local_name>>
                    ELSE IF prefix = "xs" THEN <<XSD_NS, local_name>>
                    ELSE <<None, local_name>>
            ELSE <<current_ns, local_name>>

\* root.get('targetNamespace', '')
TargetNsOf(file) == IF file.targetNamespace = NoAttr THEN "" ELSE file.targetNamespace

\* The prefix map collected from the start-ns events.
PrefixMapOf(file) == DictFromItems(file.nsEvents)

\* The declarations of a file as a dict from key to element; the element is
\* named by its path and its position under the root.
DefsOf(path, file) ==
    LET idx == SelectSeq([i \in DOMAIN file.children |-> i],
                         LAMBDA i : /\ Truthy(file.children[i].name)
                                    /\ file.children[i].tag \in DefTags)
    IN DictFromItems([j \in DOMAIN idx |->
           <<<<TargetNsOf(file), file.children[idx[j]].name>>, <<path, idx[j]>>>>])

\* The reference values of an element and of its descendants (element.iter()),
\* in document order: the non-empty values of the reference attributes.
RefValues(nodes) ==
    LET refs == SelectSeq(nodes, LAMBDA n : (\E a \in DOMAIN RefAttrs : RefAttrs[a] = n.attr)
                                           /\ n.val # << >>)
    IN [i \in DOMAIN refs |-> refs[i].val]

\* ------------------------------------------------------------ corpora
XS == <<"xs", XSD_NS>>

\* The entry e.xsd (namespace M) imports the common a.xsd (namespace N1) and
\* the foreign x.xsd; a.xsd imports e.xsd back and holds a declaration nothing
\* refers to; e2.xsd is a second entry over the same common document.
StdCorpus ==
    [f \in {"e.xsd", "e2.xsd", "a.xsd", "x.xsd"} |->
      CASE f = "e.xsd" ->
             File(NsM, "21.3", <<XS, <<"", NsM>>, <<"cns", Ns1>>, <<"ds", NsF>>>>,
               << Import(Ns1, "a.xsd"),
                  Import(NsF, "x.xsd"),
                  Decl("element", "Root", <<Node("type", Q("cns", "T"))>>),
                  Decl("complexType", "Hdr",
                       <<Node("name", U("Hdr")), Node("type", Q("xs", "string"))>>) >>)
        [] f = "e2.xsd" ->
             File(NsM2, NoAttr, <<XS, <<"", NsM2>>, <<"cns", Ns1>>>>,
               << Import(Ns1, "./a.xsd"),
                  Decl("element", "Root2", <<Node("name", U("Root2")),
                                             Node("ref", Q("cns", "Unused"))>>) >>)
        [] f = "a.xsd" ->
             File(Ns1, "1.0", <<XS, <<"", Ns1>>, <<"cns", Ns1>>, <<"m", NsM>>, <<"ds", NsF>>>>,
               << Import(NsM, "e.xsd"),
                  Import(NsF, "x.xsd"),
                  Decl("complexType", "T",
                       <<Node("name", U("T")), Node("base", Q("xs", "string")),
                         Node("default", Q("cns", "Unused"))>>),
                  Decl("simpleType", "Unused", <<Node("itemType", Q("xs", "token"))>>) >>)
        [] f = "x.xsd" -> Malformed]

\* Two common namespaces N1 and N2 that refer to each other; both map to the
\* file suffix _CommonTypes.xsd.
TwoCommonCorpus ==
    [f \in {"e.xsd", "a.xsd", "b.xsd"} |->
      CASE f = "e.xsd" ->
             File(NsM, "21.3", <<XS, <<"", NsM>>, <<"cns", Ns1>>, <<"c2", Ns2>>>>,
               << Import(Ns1, "a.xsd"),
                  Import(Ns2, "b.xsd"),
                  Decl("element", "Root", <<Node("type", Q("cns", "T"))>>),
                  Decl("element", "Hdr", <<Node("substitutionGroup", Q("c2", "U"))>>) >>)
        [] f = "a.xsd" ->
             File(Ns1, NoAttr, <<XS, <<"cns", Ns1>>, <<"c2", Ns2>>, <<"m", NsM>>>>,
               << Import(Ns2, "b.xsd"),
                  Decl("complexType", "T", <<Node("name", U("T")), Node("type", Q("c2", "U"))>>),
                  Decl("complexType", "Unused", <<Node("type", Q("xs", "string"))>>) >>)
        [] f = "b.xsd" ->
             File(Ns2, NoAttr, <<XS, <<"cns", Ns1>>, <<"c2", Ns2>>, <<"m", NsM>>>>,
               << Import(Ns1, "a.xsd"),
                  Decl("simpleType", "U", <<Node("base", Q("xs", "string"))>>),
                  Decl("group", "V", <<Node("ref", Q("cns", "T"))>>) >>)]

\* A common namespace N1 and the "FullyOptional" common namespace, which get
\* different file suffixes; the optional document uses a foreign type and
\* imports the foreign namespace twice, from two locations.
OptionalCorpus ==
    [f \in {"e.xsd", "a.xsd", "o.xsd", "x.xsd"} |->
      CASE f = "e.xsd" ->
             File(NsM, "21.3", <<XS, <<"", NsM>>, <<"cns", Ns1>>, <<"opt", NsOpt>>>>,
               << Import(Ns1, "a.xsd"),
                  Import(NsOpt, "o.xsd"),
                  Decl("element", "Root", <<Node("type", Q("cns", "T"))>>),
                  Decl("element", "Hdr", <<Node("type", Q("opt", "U"))>>) >>)
        [] f = "a.xsd" ->
             File(Ns1, NoAttr, <<XS, <<"cns", Ns1>>, <<"m", NsM>>>>,
               << Decl("complexType", "T", <<Node("base", Q("xs", "string"))>>),
                  Decl("complexType", "Unused", <<Node("base", Q("cns", "T"))>>) >>)
        [] f = "o.xsd" ->
             File(NsOpt, NoAttr, <<XS, <<"opt", NsOpt>>, <<"c2", Ns1>>, <<"ds", NsF>>, <<"m", NsM>>>>,
               << Import(NsF, "x.xsd"),
                  Import(NsF, "x2.xsd"),
                  Import(Ns1, "a.xsd"),
                  Decl("complexType", "U", <<Node("ref", Q("ds", "Signature"))>>) >>)
        [] f = "x.xsd" ->
             File(NsF, NoAttr, <<XS, <<"ds", NsF>>>>,
               << Decl("element", "Signature", <<Node("type", Q("xs", "string"))>>) >>)]

\* The entry binds cns to N1 and the file it includes binds the same prefix
\* to N2.
CollisionCorpus ==
    [f \in {"e.xsd", "inc.xsd", "a.xsd", "b.xsd"} |->
      CASE f = "e.xsd" ->
             File(NsM, "21.3", <<XS, <<"", NsM>>, <<"cns", Ns1>>>>,
               << Include("inc.xsd"),
                  Import(Ns1, "a.xsd"),
                  Decl("element", "Root", <<Node("type", Q("cns", "T"))>>),
                  Decl("complexType", "Hdr", <<Node("base", U("Part"))>>) >>)
        [] f = "inc.xsd" ->
             File(NsM, NoAttr, <<XS, <<"", NsM>>, <<"cns", Ns2>>>>,
               << Import(Ns2, "b.xsd"),
                  Decl("complexType", "Part", <<Node("type", Q("cns", "U"))>>) >>)
        [] f = "a.xsd" ->
             File(Ns1, NoAttr, <<XS, <<"", Ns1>>, <<"c2", Ns2>>, <<"m", NsM>>>>,
               << Decl("complexType", "T", <<Node("base", Q("xs", "string"))>>),
                  Decl("complexType", "Unused", <<Node("type", U("T"))>>) >>)
        [] f = "b.xsd" ->
             File(Ns2, NoAttr, <<XS, <<"", Ns2>>>>,
               << Decl("simpleType", "U", <<Node("base", Q("xs", "string"))>>) >>)]

\* The entry includes inc.xsd of its own namespace, which declares Hdr again
\* and a declaration nothing refers to and includes the entry and itself; the
\* entry imports a file that does not
\* parse; the entry has no version attribute, and one of its children is an
\* annotation and one an element without a name.
IncludeCorpus ==
    [f \in {"e.xsd", "inc.xsd", "a.xsd", "bad.xsd"} |->
      CASE f = "e.xsd" ->
             File(NsM, NoAttr, <<XS, <<"", NsM>>, <<"cns", Ns1>>>>,
               << Decl("annotation", NoAttr, << >>),
                  Include("inc.xsd"),
                  Import(Ns1, "bad.xsd"),
                  Import(Ns1, NoAttr),
                  Import(Ns1, "a.xsd"),
                  Decl("element", "Root", <<Node("type", U("Hdr"))>>),
                  Decl("element", NoAttr, <<Node("type", Q("cns", "Unused"))>>),
                  Decl("complexType", "Hdr", <<Node("base", Q("xs", "string"))>>) >>)
        [] f = "inc.xsd" ->
             File(NsM, "9.9", <<XS, <<"", NsM>>, <<"c", Ns1>>>>,
               << Decl("complexType", "Hdr", <<Node("base", Q("c", "T"))>>),
                  Decl("complexType", "Extra", <<Node("base", Q("c", "Unused"))>>),
                  Include("e.xsd"),
                  Include("inc.xsd") >>)
        [] f = "a.xsd" ->
             File(Ns1, NoAttr, <<XS, <<"cns", Ns1>>, <<"m", NsM>>>>,
               << Decl("complexType", "T", <<Node("base", Q("xs", "string"))>>),
                  Decl("complexType", "Unused", <<Node("base", Q("xs", "string"))>>) >>)
        [] f = "bad.xsd" -> Malformed]

\* The entry e.xsd has a target namespace outside the project's namespace
\* family; the common a.xsd imports that namespace from the file x.xsd, an
\* import load_schema records as external.
ForeignEntryCorpus ==
    [f \in {"e.xsd", "a.xsd", "x.xsd"} |->
      CASE f = "e.xsd" ->
             File(NsF, "21.3", <<XS, <<"", NsF>>, <<"cns", Ns1>>>>,
               << Import(Ns1, "a.xsd"),
                  Decl("element", "Root", <<Node("type", Q("cns", "T"))>>),
                  Decl("complexType", "Hdr", <<Node("type", U("Hdr"))>>) >>)
        [] f = "a.xsd" ->
             File(Ns1, NoAttr, <<XS, <<"cns", Ns1>>, <<"f", NsF>>>>,
               << Import(NsF, "x.xsd"),
                  Decl("complexType", "T", <<Node("base", Q("xs", "string"))>>) >>)
        [] f = "x.xsd" -> Malformed]

\* Two entries over the common a.xsd: e.xsd binds the prefix cns to the
\* common namespace and e2.xsd the prefix c; e.xsd imports a foreign
\* namespace from a file that is not in the source directory.
SessionsCorpus ==
    [f \in {"e.xsd", "e2.xsd", "a.xsd"} |->
      CASE f = "e.xsd" ->
             File(NsM, "21.3", <<XS, <<"", NsM>>, <<"cns", Ns1>>, <<"ds", NsF>>>>,
               << Import(Ns1, "a.xsd"),
                  Import(NsF, "gone.xsd"),
                  Decl("element", "Root", <<Node("type", Q("cns", "T"))>>) >>)
        [] f = "e2.xsd" ->
             File(NsM2, NoAttr, <<XS, <<"", NsM2>>, <<"c", Ns1>>>>,
               << Import(Ns1, "a.xsd"),
                  Decl("element", "Root2", <<Node("type", Q("c", "T"))>>) >>)
        [] f = "a.xsd" ->
             File(Ns1, NoAttr, <<XS, <<"", Ns1>>>>,
               << Decl("complexType", "T", <<Node("base", Q("xs", "string"))>>) >>)]

BaseCorpora ==
    <<StdCorpus, TwoCommonCorpus, OptionalCorpus, CollisionCorpus, IncludeCorpus,
      ForeignEntryCorpus, SessionsCorpus>>

\* The file lists given to main for each base corpus.
BaseTargets ==
    << {<<"e.xsd">>, <<"e2.xsd", "e.xsd">>, <<"e.xsd", "e.xsd">>},
       {<<"e.xsd">>},
       {<<"e.xsd">>},
       {<<"e.xsd">>},
       {<<"e.xsd">>, <<"missing.xsd", "e.xsd">>, <<"bad.xsd", "e.xsd">>},
       {<<"e.xsd">>},
       {<<"e.xsd">>, <<"e2.xsd", "e.xsd">>} >>

\* The reference values appended to a declaration of a base corpus.
ExtraVals == { Q("cns", "T"), Q("cns", "Unused"), Q("c2", "U"), Q("m", "Hdr"), U("Hdr"),
               Q("ds", "Signature"), Q("q", "Zed"), Q("cns", "Missing") }

\* The positions of the named declarations of a corpus.
DeclSlots(c) ==
    {s \in UNION {{f} \X DOMAIN c[f].children : f \in DOMAIN c} :
        /\ c[s[1]].children[s[2]].tag \in DefTags
        /\ Truthy(c[s[1]].children[s[2]].name)}

\* The corpus c with the nodes extra appended to the declaration at slot.
WithExtra(c, slot, extra) ==
    [c EXCEPT ![slot[1]].children[slot[2]].nodes = @ \o extra]

\* The sequences of at most MaxExtra appended nodes.
ExtraSeqs ==
    UNION {[1..n -> {Node("type", v) : v \in ExtraVals}] : n \in 0..MaxExtra}

\* The corpora the model runs on.
Corpora(b) ==
    {BaseCorpora[b]} \cup
    {WithExtra(BaseCorpora[b], slot, extra) :
        slot \in DeclSlots(BaseCorpora[b]), extra \in ExtraSeqs \ {<< >>}}

\* ------------------------------------------------------------ state
VARIABLES
    corpus,              \* the files of the source directory
    target_files,        \* main: the list of entry files
    fi,                  \* main: the position in target_files
    pc,                  \* where the program is
    schemas,             \* self.schemas: path -> schema_info, in insertion order
    global_definitions,  \* self.global_definitions: key -> element
    external_schemas,    \* self.external_schemas: namespace -> schemaLocation
    call,                \* load_schema: the file name of a call that has just been made
    stack,               \* load_schema: the active calls, the innermost last
    main_info,           \* flatten_message: the path of the entry's schema_info, or None
    used_keys,           \* find_used_definitions: the set of reachable keys
    queue,               \* find_used_definitions: the work queue
    plan,                \* flatten_message: the prefixes and external namespaces it worked out
    emitted,             \* flatten_message: the number of common namespaces handled
    written,             \* flatten_message: the documents it has written, in order
    fs,                  \* the output directory tree: path -> content
    trees,               \* the parsed trees in memory: path -> the children of the root
    fcall                \* a single call of a function: its arguments and its result

vars == <<corpus, target_files, fi, pc, schemas, global_definitions, external_schemas,
          call, stack, main_info, used_keys, queue, plan, emitted, written, fs, trees, fcall>>

\* self.schemas[path]
SchemaAt(path) == DictGet(schemas, path)

\* A schema_info; root stands for the parsed tree of the file at path.
SchemaInfo(path) ==
    [root |-> path,
     target_ns |-> TargetNsOf(corpus[path]),
     prefix_map |-> PrefixMapOf(corpus[path]),
     definitions |-> DefsOf(path, corpus[path]),
     imports |-> << >>]

\* The top-level child an element stands for, as it is in memory now: the
\* element el[2] of the tree parsed from the file at el[1].
ElementAt(el) == DictGet(trees, el[1])[el[2]]

\* ET.parse that accepts every file that exists.
Parses_Any(path) == path \in DOMAIN corpus

\* ET.parse(path) succeeds.
Parses(path) == path \in DOMAIN corpus /\ corpus[path].parses

\* No single function call is looked at.
NoCall == [name |-> "", args |-> << >>, done |-> FALSE, result |-> << >>]

\* No plan yet.
NoPlan == [cns_namespaces |-> << >>, used_external_namespaces |-> {},
           external_ns_prefixes |-> << >>]

Init ==
    /\ \E b \in DOMAIN BaseCorpora :
         /\ corpus \in Corpora(b)
         /\ target_files \in BaseTargets[b]
    /\ fi = 1
    /\ pc = "main"
    /\ schemas = << >>
    /\ global_definitions = << >>
    /\ external_schemas = << >>
    /\ call = None
    /\ stack = << >>
    /\ main_info = None
    /\ used_keys = {}
    /\ queue = << >>
    /\ plan = NoPlan
    /\ emitted = 0
    /\ written = << >>
    /\ fs = << >>
    /\ trees = << >>
    /\ fcall = NoCall

\* ------------------------------------------------------------ main
\* The current entry file.
fname == target_files[fi]

\* main: the entry file is not in the input directory.
SkipMissing ==
    /\ pc = "main"
    /\ fi <= Len(target_files)
    /\ fname \notin DOMAIN corpus
    /\ fi' = fi + 1
    /\ UNCHANGED <<fcall, trees, corpus, target_files, pc, schemas, global_definitions, external_schemas,
                   call, stack, main_info, used_keys, queue, plan, emitted, written, fs>>

\* main calls flatten_message, which calls load_schema(message_filename).
StartFlatten ==
    /\ pc = "main"
    /\ fi <= Len(target_files)
    /\ fname \in DOMAIN corpus
    /\ pc' = "load"
    /\ call' = fname
    /\ main_info' = None
    /\ used_keys' = {}
    /\ queue' = << >>
    /\ plan' = NoPlan
    /\ emitted' = 0
    /\ written' = << >>
    /\ UNCHANGED <<fcall, trees, corpus, target_files, fi, schemas, global_definitions, external_schemas,
                   stack, fs>>

\* main: flatten_message has returned, its locals are gone; the loop goes to
\* the next file.
NextTarget ==
    /\ pc = "return"
    /\ pc' = "main"
    /\ fi' = fi + 1
    /\ main_info' = None
    /\ used_keys' = {}
    /\ queue' = << >>
    /\ plan' = NoPlan
    /\ emitted' = 0
    /\ written' = << >>
    /\ UNCHANGED <<fcall, trees, corpus, target_files, schemas, global_definitions, external_schemas,
                   call, stack, fs>>

\* main: the loop over the target files is over.
Finish ==
    /\ pc = "main"
    /\ fi > Len(target_files)
    /\ pc' = "done"
    /\ UNCHANGED <<fcall, trees, corpus, target_files, fi, schemas, global_definitions, external_schemas,
                   call, stack, main_info, used_keys, queue, plan, emitted, written, fs>>

\* ------------------------------------------------------------ load_schema
\* The innermost active call of load_schema and the child its loop is at.
Top == stack[Len(stack)]
TopFile == corpus[Top.path]
TopChild == TopFile.children[Top.i]

\* The child is an import or include with a schemaLocation.
IsImport(child) == child.tag \in {"import", "include"} /\ Truthy(child.schemaLocation)

\* No import is taken for an import of an external schema.
IsExternal_Never(child) == FALSE

\* The child is an import of an external (non-IATA) schema.
IsExternal(child) == Truthy(child.namespace) /\ ~StartsWithIata(child.namespace)

\* schema_info['imports'].append(...) in the call at the top of stk, whose loop
\* then goes on to its next child.
AppendImport(stk) ==
    LET f == stk[Len(stk)]
        loc == corpus[f.path].children[f.i].schemaLocation
    IN /\ schemas' = DictSet(schemas, f.path,
                        [SchemaAt(f.path) EXCEPT !.imports = Append(@, AbsPath(loc))])
       /\ stack' = [stk EXCEPT ![Len(stk)].i = @ + 1]

\* A call of load_schema returns result to its caller: to the loop of the
\* calling load_schema (stk is not empty), or to flatten_message, which
\* returns when the result is None.
ReturnTo(stk, result) ==
    IF stk # << >>
    THEN /\ AppendImport(stk)
         /\ UNCHANGED <<main_info, pc>>
    ELSE /\ stack' = stk
         /\ main_info' = result
         /\ pc' = IF result = None THEN "return" ELSE "seed"
         /\ UNCHANGED schemas

\* load_schema that never finds its path in self.schemas.
IsLoaded_Never(path) == FALSE

\* load_schema that stores its record after the loop over the imports: the
\* path of a call that is still active is not found in self.schemas.
IsLoaded_AfterImports(path) ==
    DictHas(schemas, path) /\ \A i \in DOMAIN stack : stack[i].path # path

\* path in self.schemas
IsLoaded(path) == DictHas(schemas, path)

\* The path is already loaded: the stored schema_info is returned.
LoadMemo ==
    /\ pc = "load"
    /\ call # None
    /\ IsLoaded(AbsPath(call))
    /\ call' = None
    /\ ReturnTo(stack, AbsPath(call))
    /\ UNCHANGED <<fcall, trees, corpus, target_files, fi, global_definitions, external_schemas,
                   used_keys, queue, plan, emitted, written, fs>>

\* ET.parse raises: the call returns None.
LoadFail ==
    /\ pc = "load"
    /\ call # None
    /\ ~IsLoaded(AbsPath(call))
    /\ ~Parses(AbsPath(call))
    /\ call' = None
    /\ ReturnTo(stack, None)
    /\ UNCHANGED <<fcall, trees, corpus, target_files, fi, global_definitions, external_schemas,
                   used_keys, queue, plan, emitted, written, fs>>

\* The file is parsed: its tree is in memory, its schema_info is stored, its
\* declarations are put in the global table, and the loop over its children
\* starts.
LoadParse ==
    /\ pc = "load"
    /\ call # None
    /\ ~IsLoaded(AbsPath(call))
    /\ Parses(AbsPath(call))
    /\ LET path == AbsPath(call)
       IN /\ schemas' = Append(schemas, <<path, SchemaInfo(path)>>)
          /\ global_definitions' = DictUpdate(global_definitions, SchemaInfo(path).definitions)
          /\ stack' = Append(stack, [path |-> path, i |-> 1])
          /\ trees' = Append(trees, <<path, corpus[path].children>>)
    /\ call' = None
    /\ UNCHANGED <<fcall, corpus, target_files, fi, pc, external_schemas, main_info,
                   used_keys, queue, plan, emitted, written, fs>>

\* The loop passes a child that is no import or include with a schemaLocation.
LoadOtherChild ==
    /\ pc = "load"
    /\ call = None
    /\ stack # << >>
    /\ Top.i <= Len(TopFile.children)
    /\ ~IsImport(TopChild)
    /\ stack' = [stack EXCEPT ![Len(stack)].i = @ + 1]
    /\ UNCHANGED <<fcall, trees, corpus, target_files, fi, pc, schemas, global_definitions,
                   external_schemas, call, main_info, used_keys, queue, plan, emitted, written, fs>>

\* An import of an external schema: its location is recorded unless one is
\* recorded for the namespace already; the file is not loaded.
LoadExternalImport ==
    /\ pc = "load"
    /\ call = None
    /\ stack # << >>
    /\ Top.i <= Len(TopFile.children)
    /\ IsImport(TopChild)
    /\ IsExternal(TopChild)
    /\ external_schemas' =
         IF DictHas(external_schemas, TopChild.namespace) THEN external_schemas
         ELSE DictSet(external_schemas, TopChild.namespace, TopChild.schemaLocation)
    /\ AppendImport(stack)
    /\ UNCHANGED <<fcall, trees, corpus, target_files, fi, pc, global_definitions, call, main_info,
                   used_keys, queue, plan, emitted, written, fs>>

\* Any other import or include: load_schema(loc) is called.
LoadRecurse ==
    /\ pc = "load"
    /\ call = None
    /\ stack # << >>
    /\ Top.i <= Len(TopFile.children)
    /\ IsImport(TopChild)
    /\ ~IsExternal(TopChild)
    /\ call' = TopChild.schemaLocation
    /\ UNCHANGED <<fcall, trees, corpus, target_files, fi, pc, schemas, global_definitions,
                   external_schemas, stack, main_info, used_keys, queue, plan, emitted, written, fs>>

\* The loop is over: the call returns its schema_info.
LoadReturn ==
    /\ pc = "load"
    /\ call = None
    /\ stack # << >>
    /\ Top.i > Len(TopFile.children)
    /\ ReturnTo(SubSeq(stack, 1, Len(stack) - 1), Top.path)
    /\ UNCHANGED <<fcall, trees, corpus, target_files, fi, global_definitions, external_schemas, call,
                   used_keys, queue, plan, emitted, written, fs>>

\* ------------------------------------------------------------ find_used_definitions
\* The origin scan without the test on the element: the first schema whose
\* definitions have the key.
OriginOf_FirstDefiner(key) ==
    LET i == FirstIndex([j \in DOMAIN schemas |-> DictHas(schemas[j][2].definitions, key)])
    IN IF i = 0 THEN None ELSE schemas[i][1]

\* The schema whose definitions hold the element stored for key in the global
\* table: the first one in the order of self.schemas, None when there is none.
OriginOf(key) ==
    LET element == DictGet(global_definitions, key)
        i == FirstIndex([j \in DOMAIN schemas |->
                            /\ DictHas(schemas[j][2].definitions, key)
                            /\ DictGet(schemas[j][2].definitions, key) = element])
    IN IF i = 0 THEN None ELSE schemas[i][1]

\* resolve_reference in the scope of the schema at path.
ResolveIn(value, path) ==
    resolve_reference(value, SchemaAt(path).target_ns, SchemaAt(path).prefix_map)

\* check_ref without the test that the key is not yet in used_keys.
check_ref_NoSeen(value, origin, uq) ==
    LET ref_key == ResolveIn(value, origin)
    IN IF /\ ref_key # NoKey
          /\ ref_key[1] # XSD_NS
          /\ DictHas(global_definitions, ref_key)
       THEN <<uq[1] \cup {ref_key}, Append(uq[2], ref_key)>>
       ELSE uq

\* check_ref without the test that the key is in the global table.
check_ref_NoTable(value, origin, uq) ==
    LET ref_key == ResolveIn(value, origin)
    IN IF /\ ref_key # NoKey
          /\ ref_key[1] # XSD_NS
          /\ ref_key \notin uq[1]
       THEN <<uq[1] \cup {ref_key}, Append(uq[2], ref_key)>>
       ELSE uq

\* check_ref that marks the key but does not put it on the queue.
check_ref_NoEnqueue(value, origin, uq) ==
    LET ref_key == ResolveIn(value, origin)
    IN IF /\ ref_key # NoKey
          /\ ref_key[1] # XSD_NS
          /\ DictHas(global_definitions, ref_key)
          /\ ref_key \notin uq[1]
       THEN <<uq[1] \cup {ref_key}, uq[2]>>
       ELSE uq

\* check_ref(value) on the pair <<used_keys, queue>>.
check_ref(value, origin, uq) ==
    LET ref_key == ResolveIn(value, origin)
    IN IF /\ ref_key # NoKey
          /\ ref_key[1] # XSD_NS
          /\ DictHas(global_definitions, ref_key)
          /\ ref_key \notin uq[1]
       THEN <<uq[1] \cup {ref_key}, Append(uq[2], ref_key)>>
       ELSE uq

RECURSIVE ScanRefs(_, _, _)
\* check_ref on the values one after the other.  The element's own attributes
\* are checked first and once more as the first node of element.iter(); the
\* second check changes nothing.
ScanRefs(values, origin, uq) ==
    IF values = << >> THEN uq
    ELSE ScanRefs(Tail(values), origin, check_ref(Head(values), origin, uq))

\* SeedKeys that takes the first definition of the entry schema only.
SeedKeys_FirstOnly(main_path) ==
    LET defs == SchemaAt(main_path).definitions
        keys == [i \in DOMAIN defs |-> defs[i][1]]
    IN SubSeq(SelectSeq(keys, LAMBDA k : k[1] = SchemaAt(main_path).target_ns), 1, 1)

\* The keys of the entry schema's own definitions, in dict order.
SeedKeys(main_path) ==
    LET defs == SchemaAt(main_path).definitions
        keys == [i \in DOMAIN defs |-> defs[i][1]]
    IN SelectSeq(keys, LAMBDA k : k[1] = SchemaAt(main_path).target_ns)

\* find_used_definitions starts: the entry's definitions are queued and used.
FindSeed ==
    /\ pc = "seed"
    /\ queue' = SeedKeys(AbsPath(fname))
    /\ used_keys' = Range(SeedKeys(AbsPath(fname)))
    /\ pc' = "find"
    /\ UNCHANGED <<fcall, trees, corpus, target_files, fi, schemas, global_definitions, external_schemas,
                   call, stack, main_info, plan, emitted, written, fs>>

\* popleft that puts the key it returns back at the end of the queue.
popleft_Rotate(q) == Append(Tail(q), Head(q))

\* The queue after queue.popleft().
popleft(q) == Tail(q)

\* One iteration of the while loop: a key is taken from the queue and the
\* references of its element are checked.
FindStep ==
    /\ pc = "find"
    /\ queue # << >>
    /\ LET current_key == Head(queue)
           uq == IF /\ DictHas(global_definitions, current_key)
                    /\ OriginOf(current_key) # None
                 THEN ScanRefs(RefValues(ElementAt(DictGet(global_definitions, current_key)).nodes),
                               OriginOf(current_key), <<used_keys, popleft(queue)>>)
                 ELSE <<used_keys, popleft(queue)>>
       IN /\ used_keys' = uq[1]
          /\ queue' = uq[2]
    /\ UNCHANGED <<fcall, trees, corpus, target_files, fi, pc, schemas, global_definitions,
                   external_schemas, call, stack, main_info, plan, emitted, written, fs>>

\* ------------------------------------------------------------ flatten_message: the plan
\* The order of Python's string comparison on the namespaces and on the
\* declaration names of the corpora.
NsSorted == <<"", NsM, NsM2, Ns1, NsOpt, Ns2, NsF, XSD_NS>>
NameSorted == <<"Extra", "Hdr", "Part", "Root", "Root2", "Signature", "T", "U", "Unused", "V">>

\* sorted(S) for a set of namespaces.
SortedNs(S) == SelectSeq(NsSorted, LAMBDA ns : ns \in S)

\* sorted(S, key=lambda x: x[1]) for a set of keys of one namespace: their
\* names are pairwise different.
SortedByName(S) ==
    LET names == SelectSeq(NameSorted, LAMBDA n : \E k \in S : k[2] = n)
    IN [i \in DOMAIN names |-> CHOOSE k \in S : k[2] = names[i]]

\* The order of the elements put in by insert(0, ...) one after the other.
Reverse(s) == [i \in DOMAIN s |-> s[Len(s) + 1 - i]]

\* f'cns{k}'
CnsName(k) == <<"cns0", "cns1", "cns2", "cns3">>[k + 1]

main_ns == SchemaAt(main_info).target_ns

\* defs_by_ns built from the whole global table instead of the reachable set.
defs_by_ns_All(ns) == {k \in DictKeys(global_definitions) : k[1] = ns}

\* defs_by_ns[ns], as a set: the list is sorted before it is used.
defs_by_ns(ns) == {k \in used_keys : k[1] = ns}

\* other_namespaces without the test that leaves the entry namespace out.
OtherNamespaces_WithMain(ns_order) == SelectSeq(ns_order, LAMBDA ns : ns # XSD_NS)

\* other_namespaces, for defs_by_ns holding its namespaces in the order ns_order.
OtherNamespaces(ns_order) == SelectSeq(ns_order, LAMBDA ns : ns # main_ns /\ ns # XSD_NS)

RECURSIVE AllPrefixItems(_)
\* The items of the prefix maps of all loaded schemas, in the order the two
\* nested loops over self.schemas and prefix_map.items() visit them.
AllPrefixItems(ss) ==
    IF ss = << >> THEN << >> ELSE ss[1][2].prefix_map \o AllPrefixItems(Tail(ss))

\* The first non-empty prefix a loaded schema binds to ns, None without one.
FoundPrefix(ns) ==
    LET items == AllPrefixItems(schemas)
        i == FirstIndex([j \in DOMAIN items |-> items[j][2] = ns /\ Truthy(items[j][1])])
    IN IF i = 0 THEN None ELSE items[i][1]

\* cns_namespaces built over the list nss of different namespaces: when the
\* loop is at nss[i], cns_namespaces holds i - 1 entries.
CnsNamespacesOf(nss) ==
    [i \in DOMAIN nss |->
        <<nss[i], IF Truthy(FoundPrefix(nss[i])) THEN FoundPrefix(nss[i]) ELSE CnsName(i - 1)>>]

\* The namespaces the references of the element stored for key resolve to.
RefNamespaces(key) ==
    IF OriginOf(key) = None THEN {}
    ELSE LET values == RefValues(ElementAt(DictGet(global_definitions, key)).nodes)
             keys == {ResolveIn(values[i], OriginOf(key)) : i \in DOMAIN values}
         IN {k[1] : k \in keys \ {NoKey}}

UsedExternalNamespaces ==
    {ns \in UNION {RefNamespaces(key) : key \in used_keys} : DictHas(external_schemas, ns)}

\* external_ns_prefixes: the first prefix met for each used external
\* namespace, in the order the namespaces are first met.
ExternalNsPrefixes(cns, used_external) ==
    LET items == AllPrefixItems(schemas)
        Fits(it) == /\ Truthy(it[2])
                    /\ it[2] \in used_external
                    /\ ~DictHas(cns, it[2])
                    /\ it[2] # main_ns
                    /\ it[2] # XSD_NS
                    /\ Truthy(it[1])
        first == SelectSeq([i \in DOMAIN items |-> i],
                     LAMBDA i : /\ Fits(items[i])
                                /\ \A j \in 1..(i - 1) : Fits(items[j]) => items[j][2] # items[i][2])
    IN [n \in DOMAIN first |-> <<items[first[n]][2], items[first[n]][1]>>]

\* What flatten_message works out before it writes: cns_namespaces,
\* used_external_namespaces and external_ns_prefixes.
PlanFor(ns_order) ==
    LET cns == CnsNamespacesOf(OtherNamespaces(ns_order))
    IN [cns_namespaces |-> cns,
        used_external_namespaces |-> UsedExternalNamespaces,
        external_ns_prefixes |-> ExternalNsPrefixes(cns, UsedExternalNamespaces)]

\* RewriteValue with the rewrite to the prefix of the plan left out for the
\* common namespaces: the value keeps the prefix of the document it comes from.
RewriteValue_KeepPrefix(val, origin, is_cns_schema, pl) ==
    LET ref_key == ResolveIn(val, origin)
        ref_ns == ref_key[1]
        ref_local == ref_key[2]
    IN IF ref_key = NoKey THEN val
       ELSE IF ref_ns = XSD_NS THEN Q("xs", ref_local)
       ELSE IF DictHas(pl.cns_namespaces, ref_ns) THEN val
       ELSE IF ref_ns = main_ns
            THEN IF is_cns_schema THEN Q("msg", ref_local) ELSE U(ref_local)
       ELSE IF DictHas(pl.external_ns_prefixes, ref_ns)
            THEN Q(DictGet(pl.external_ns_prefixes, ref_ns), ref_local)
       ELSE U(ref_local)

\* RewriteValue that writes a reference to the entry namespace without a
\* prefix in every document.
RewriteValue_BareMain(val, origin, is_cns_schema, pl) ==
    LET ref_key == ResolveIn(val, origin)
        ref_ns == ref_key[1]
        ref_local == ref_key[2]
    IN IF ref_key = NoKey THEN val
       ELSE IF ref_ns = XSD_NS THEN Q("xs", ref_local)
       ELSE IF DictHas(pl.cns_namespaces, ref_ns)
            THEN Q(DictGet(pl.cns_namespaces, ref_ns), ref_local)
       ELSE IF ref_ns = main_ns THEN U(ref_local)
       ELSE IF DictHas(pl.external_ns_prefixes, ref_ns)
            THEN Q(DictGet(pl.external_ns_prefixes, ref_ns), ref_local)
       ELSE U(ref_local)

\* The value rewrite_prefixes sets for one reference value under the plan pl.
RewriteValue(val, origin, is_cns_schema, pl) ==
    LET ref_key == ResolveIn(val, origin)
        ref_ns == ref_key[1]
        ref_local == ref_key[2]
    IN IF ref_key = NoKey THEN val
       ELSE IF ref_ns = XSD_NS THEN Q("xs", ref_local)
       ELSE IF DictHas(pl.cns_namespaces, ref_ns)
            THEN Q(DictGet(pl.cns_namespaces, ref_ns), ref_local)
       ELSE IF ref_ns = main_ns
            THEN IF is_cns_schema THEN Q("msg", ref_local) ELSE U(ref_local)
       ELSE IF DictHas(pl.external_ns_prefixes, ref_ns)
            THEN Q(DictGet(pl.external_ns_prefixes, ref_ns), ref_local)
       ELSE U(ref_local)

\* rewrite_prefixes on the nodes of a copied element.
rewrite_prefixes(nodes, origin, is_cns_schema, pl) ==
    [i \in DOMAIN nodes |->
        IF (\E a \in DOMAIN RefAttrs : RefAttrs[a] = nodes[i].attr) /\ nodes[i].val # << >>
        THEN Node(nodes[i].attr, RewriteValue(nodes[i].val, origin, is_cns_schema, pl))
        ELSE nodes[i]]

\* get_ct_suffix(ns)
get_ct_suffix(ns) ==
    IF ContainsFullyOptional(ns) THEN "_OptionalCommonTypes.xsd" ELSE "_CommonTypes.xsd"

\* A declaration of a generated document: copy.deepcopy of the element stored
\* for key, rewritten.
NewEl(key, is_cns_schema, pl) ==
    LET el == DictGet(global_definitions, key)
    IN [key |-> key, element |-> el, tag |-> ElementAt(el).tag,
        nodes |-> rewrite_prefixes(ElementAt(el).nodes, OriginOf(key), is_cns_schema, pl)]

\* The rewritten declarations of namespace ns, sorted by name; a key whose
\* origin schema is not found is left out.
NewEls(ns, is_cns_schema, pl) ==
    LET sorted == SortedByName(defs_by_ns(ns))
        kept == SelectSeq(sorted, LAMBDA k : OriginOf(k) # None)
    IN [i \in DOMAIN kept |-> NewEl(kept[i], is_cns_schema, pl)]

\* copy.deepcopy that returns the element it is given.
deepcopy_Alias(el) == el

\* copy.deepcopy(original_el): a new element, which is no element of a tree
\* in memory; it is named by the position of the element it is copied from.
deepcopy(el) == <<"<copy>", el[2]>>

\* elem.set on the nodes of the element target: an element of a tree in
\* memory gets the nodes, and the trees are as before for a new element.
SetNodes(t, target, nodes) ==
    IF DictHas(t, target[1])
    THEN DictSet(t, target[1], [DictGet(t, target[1]) EXCEPT ![target[2]].nodes = nodes])
    ELSE t

RECURSIVE ApplyRewrites(_, _)
\* The trees in memory after rewrite_prefixes has run on the copy made of
\* each of the declarations news.
ApplyRewrites(t, news) ==
    IF news = << >> THEN t
    ELSE ApplyRewrites(SetNodes(t, deepcopy(news[1].element), news[1].nodes), Tail(news))

\* ------------------------------------------------------------ flatten_message: the documents
\* A file of the output tree: a generated schema document or the copy of a
\* source file.  A schemaLocation and a file name are token sequences, << >>
\* for a missing attribute.  xmlns lists the namespace declarations of the
\* root tag in the order they are written: the one ElementTree writes for the
\* tags of the schema language, then xmlns_decls.  A copy records the
\* position in target_files of the flatten_message call that made it.
SchemaDoc(tns, version, imports, xmlns_decls, decls) ==
    [kind |-> "schema", source |-> << >>, targetNamespace |-> tns, version |-> version,
     imports |-> imports, xmlns |-> <<XS>> \o xmlns_decls, decls |-> decls]
CopyOf(loc) ==
    [kind |-> "copy", source |-> <<loc>>, targetNamespace |-> NoAttr, version |-> NoAttr,
     imports |-> << >>, xmlns |-> << >>, decls |-> << >>, made_in |-> fi]
ImportEl(ns, loc) == [namespace |-> ns, schemaLocation |-> loc]

output_dir == FolderName(fname)
base_name == BaseName(fname)
\* The paths of the main document and of the document of a common namespace.
output_path == <<output_dir, fname>>
ct_output_path(ns) == <<output_dir, base_name, get_ct_suffix(ns)>>

\* minidom parses the serialized document: it rejects a root tag that
\* declares the same prefix twice.
WriteOK(doc) ==
    \A i, j \in DOMAIN doc.xmlns : doc.xmlns[i][1] = doc.xmlns[j][1] => i = j

\* The schemaLocation put on the import of an external namespace: every
\* loaded schema that has an import of it with a schemaLocation sets the
\* attribute to its first one, so the last such schema decides.
ExtLocation(ext_ns) ==
    LET Matches(path) ==
            SelectSeq(corpus[path].children,
                      LAMBDA c : /\ c.tag = "import"
                                 /\ c.namespace = ext_ns
                                 /\ Truthy(c.schemaLocation))
        having == SelectSeq(schemas, LAMBDA item : Matches(item[1]) # << >>)
    IN IF having = << >> THEN << >>
       ELSE <<Matches(having[Len(having)][1])[1].schemaLocation>>

\* The namespaces the kept declarations of common namespace ns refer to.
CnsRefNamespaces(ns) == UNION {RefNamespaces(key) : key \in defs_by_ns(ns)}
used_external_ns(ns, pl) ==
    {n \in CnsRefNamespaces(ns) : DictHas(pl.external_ns_prefixes, n)}
\* used_other_cns that is never added to.
used_other_cns_None(ns, pl) == {}

used_other_cns(ns, pl) ==
    {n \in CnsRefNamespaces(ns) :
        ~DictHas(pl.external_ns_prefixes, n) /\ DictHas(pl.cns_namespaces, n) /\ n # ns}

\* The document of common namespace ns; oth_order is the order in which the
\* set used_other_cns is iterated for the xmlns declarations.  Each import is
\* inserted at position 0, the external ones first.
CommonDoc(ns, oth_order, pl) ==
    LET ext == Reverse(SortedNs(used_external_ns(ns, pl)))
        oth == Reverse(SortedNs(used_other_cns(ns, pl)))
        ext_items == SelectSeq(pl.external_ns_prefixes,
                               LAMBDA it : it[1] \in used_external_ns(ns, pl))
    IN SchemaDoc(ns, "1.0",
         [i \in DOMAIN oth |-> ImportEl(oth[i], <<base_name, get_ct_suffix(oth[i])>>)]
           \o [i \in DOMAIN ext |-> ImportEl(ext[i], ExtLocation(ext[i]))],
         <<<<DictGet(pl.cns_namespaces, ns), ns>>>>
           \o [i \in DOMAIN ext_items |-> <<ext_items[i][2], ext_items[i][1]>>]
           \o [i \in DOMAIN oth_order |->
                 <<DictGet(pl.cns_namespaces, oth_order[i]), oth_order[i]>>],
         NewEls(ns, TRUE, pl))

\* main_info['root'].get('version', '1.0')
MainVersion ==
    IF corpus[SchemaAt(main_info).root].version = NoAttr THEN "1.0"
    ELSE corpus[SchemaAt(main_info).root].version

\* The main document.
MainDoc(pl) ==
    LET with_defs == SelectSeq(pl.cns_namespaces, LAMBDA it : defs_by_ns(it[1]) # {})
        with_prefix == SelectSeq(pl.cns_namespaces, LAMBDA it : Truthy(it[2]))
    IN SchemaDoc(main_ns, MainVersion,
         [i \in DOMAIN with_defs |->
            ImportEl(with_defs[i][1], <<base_name, get_ct_suffix(with_defs[i][1])>>)],
         <<<<"", main_ns>>>>
           \o [i \in DOMAIN with_prefix |-> <<with_prefix[i][2], with_prefix[i][1]>>],
         IF defs_by_ns(main_ns) # {} THEN NewEls(main_ns, FALSE, pl) ELSE << >>)

RECURSIVE CopyExternal_All(_, _, _)
\* _copy_external_schemas without the test on limit_to_namespaces.
CopyExternal_All(items, limit_to_namespaces, f) ==
    IF items = << >> THEN f
    ELSE LET schema_location == items[1][2]
             dst_path == <<output_dir, schema_location>>
         IN CopyExternal_All(Tail(items), limit_to_namespaces,
              IF /\ schema_location \in DOMAIN corpus
                 /\ ~DictHas(f, dst_path)
              THEN DictSet(f, dst_path, CopyOf(schema_location))
              ELSE f)

RECURSIVE CopyExternal_Overwrite(_, _, _)
\* _copy_external_schemas without the test that the destination is absent.
CopyExternal_Overwrite(items, limit_to_namespaces, f) ==
    IF items = << >> THEN f
    ELSE LET ns == items[1][1]
             schema_location == items[1][2]
             dst_path == <<output_dir, schema_location>>
         IN CopyExternal_Overwrite(Tail(items), limit_to_namespaces,
              IF /\ ns \in limit_to_namespaces
                 /\ schema_location \in DOMAIN corpus
              THEN DictSet(f, dst_path, CopyOf(schema_location))
              ELSE f)

RECURSIVE CopyExternal(_, _, _)
\* _copy_external_schemas over the items of external_schemas, on the tree f.
CopyExternal(items, limit_to_namespaces, f) ==
    IF items = << >> THEN f
    ELSE LET ns == items[1][1]
             schema_location == items[1][2]
             dst_path == <<output_dir, schema_location>>
         IN CopyExternal(Tail(items), limit_to_namespaces,
              IF /\ ns \in limit_to_namespaces
                 /\ schema_location \in DOMAIN corpus
                 /\ ~DictHas(f, dst_path)
              THEN DictSet(f, dst_path, CopyOf(schema_location))
              ELSE f)

\* ------------------------------------------------------------ flatten_message: the steps
\* The reachable set is complete; defs_by_ns is built by iterating the set
\* used_keys, so its namespaces come in the order the iteration meets them.
Plan ==
    /\ pc = "find"
    /\ queue = << >>
    /\ \E ns_order \in Perms({k[1] : k \in used_keys}) : plan' = PlanFor(ns_order)
    /\ emitted' = 0
    /\ pc' = "emit"
    /\ UNCHANGED <<fcall, trees, corpus, target_files, fi, schemas, global_definitions, external_schemas,
                   call, stack, main_info, used_keys, queue, written, fs>>

\* The common namespace the loop over cns_namespaces is at.
cns_target_ns == plan.cns_namespaces[emitted + 1][1]

\* One iteration of the loop over the common namespaces: its document is written.
EmitCommon ==
    /\ pc = "emit"
    /\ emitted < Len(plan.cns_namespaces)
    /\ \E oth_order \in Perms(used_other_cns(cns_target_ns, plan)) :
         LET doc == CommonDoc(cns_target_ns, oth_order, plan)
         IN /\ defs_by_ns(cns_target_ns) # {} => WriteOK(doc)
            /\ fs' = IF defs_by_ns(cns_target_ns) = {} THEN fs
                     ELSE DictSet(fs, ct_output_path(cns_target_ns), doc)
            /\ written' = IF defs_by_ns(cns_target_ns) = {} THEN written
                          ELSE Append(written, <<ct_output_path(cns_target_ns), doc>>)
            /\ trees' = IF defs_by_ns(cns_target_ns) = {} THEN trees
                        ELSE ApplyRewrites(trees, doc.decls)
    /\ emitted' = emitted + 1
    /\ UNCHANGED <<fcall, corpus, target_files, fi, pc, schemas, global_definitions,
                   external_schemas, call, stack, main_info, used_keys, queue, plan>>

\* _write_schema_file raises on the document of a common namespace: the
\* exception ends the program.
EmitCommonFails ==
    /\ pc = "emit"
    /\ emitted < Len(plan.cns_namespaces)
    /\ defs_by_ns(cns_target_ns) # {}
    /\ \E oth_order \in Perms(used_other_cns(cns_target_ns, plan)) :
         ~WriteOK(CommonDoc(cns_target_ns, oth_order, plan))
    /\ pc' = "crashed"
    /\ UNCHANGED <<fcall, trees, corpus, target_files, fi, schemas, global_definitions, external_schemas,
                   call, stack, main_info, used_keys, queue, plan, emitted, written, fs>>

\* The main document is written.
EmitMain ==
    /\ pc = "emit"
    /\ emitted = Len(plan.cns_namespaces)
    /\ WriteOK(MainDoc(plan))
    /\ fs' = DictSet(fs, output_path, MainDoc(plan))
    /\ written' = Append(written, <<output_path, MainDoc(plan)>>)
    /\ trees' = ApplyRewrites(trees, MainDoc(plan).decls)
    /\ pc' = "copy"
    /\ UNCHANGED <<fcall, corpus, target_files, fi, schemas, global_definitions, external_schemas,
                   call, stack, main_info, used_keys, queue, plan, emitted>>

\* _write_schema_file raises on the main document: the exception ends the program.
EmitMainFails ==
    /\ pc = "emit"
    /\ emitted = Len(plan.cns_namespaces)
    /\ ~WriteOK(MainDoc(plan))
    /\ pc' = "crashed"
    /\ UNCHANGED <<fcall, trees, corpus, target_files, fi, schemas, global_definitions, external_schemas,
                   call, stack, main_info, used_keys, queue, plan, emitted, written, fs>>

\* _copy_external_schemas, the last statement of flatten_message.
CopyExternalSchemas ==
    /\ pc = "copy"
    /\ fs' = CopyExternal(external_schemas, plan.used_external_namespaces, fs)
    /\ pc' = "return"
    /\ UNCHANGED <<fcall, trees, corpus, target_files, fi, schemas, global_definitions, external_schemas,
                   call, stack, main_info, used_keys, queue, plan, emitted, written>>

Next ==
    \/ SkipMissing
    \/ StartFlatten
    \/ NextTarget
    \/ Finish
    \/ LoadMemo
    \/ LoadFail
    \/ LoadParse
    \/ LoadOtherChild
    \/ LoadExternalImport
    \/ LoadRecurse
    \/ LoadReturn
    \/ FindSeed
    \/ FindStep
    \/ Plan
    \/ EmitCommon
    \/ EmitCommonFails
    \/ EmitMain
    \/ EmitMainFails
    \/ CopyExternalSchemas

Spec == Init /\ [][Next]_vars

\* ------------------------------------------------------------ well-formed corpora
\* Every reference of every file of c resolves, in the scope of its file, to
\* the schema language, to a declaration of some file of c, or to a namespace
\* that a file of c imports as an external schema.
WellFormed(c) ==
    LET files == {f \in DOMAIN c : c[f].parses}
        Declared(k) == \E g \in files : DictHas(DefsOf(g, c[g]), k)
        External(ns) == \E g \in files : \E i \in DOMAIN c[g].children :
                            /\ IsImport(c[g].children[i])
                            /\ IsExternal(c[g].children[i])
                            /\ c[g].children[i].namespace = ns
    IN \A f \in files : \A i \in DOMAIN c[f].children :
         \A v \in Range(RefValues(c[f].children[i].nodes)) :
            LET r == resolve_reference(v, TargetNsOf(c[f]), PrefixMapOf(c[f]))
            IN r[1] = XSD_NS \/ Declared(r) \/ External(r[1])

\* The runs on the well-formed corpora.
InitClosed == Init /\ WellFormed(corpus)
SpecClosed == InitClosed /\ [][Next]_vars

\* ------------------------------------------------------------ the generated documents
\* flatten_message has written all its documents.
Flattened == pc \in {"copy", "return"} /\ main_info # None
\* flatten_message has worked out its plan.
Planned == pc \in {"emit", "copy", "return", "crashed"} /\ main_info # None

\* The documents written so far by the current call of flatten_message, and
\* those of them that are documents of a common namespace.
Written == Range(written)
IsCommon(w) == w[1] # output_path
RunDocs == {w[2] : w \in Written}

\* The nodes of a generated document that carry a reference.
IsRef(node) == (\E a \in DOMAIN RefAttrs : RefAttrs[a] = node.attr) /\ node.val # << >>
RefNodes(doc) ==
    UNION {{<<d, i>> : i \in {j \in DOMAIN d.nodes : IsRef(d.nodes[j])}} :
              d \in Range(doc.decls)}

\* The key of a generated declaration, read off the element it is a copy of.
DeclKey(d) == <<TargetNsOf(corpus[d.element[1]]), ElementAt(d.element).name>>

\* What a reference of a generated document resolves to in that document:
\* by the namespace declarations and the target namespace of the document.
ResolveOut(val, doc) ==
    resolve_reference(val, doc.targetNamespace, DictFromItems(doc.xmlns))

\* What the reference at node i of the generated declaration d resolved to
\* in the document it was copied from.
ResolveOrig(d, i) == ResolveIn(ElementAt(d.element).nodes[i].val, OriginOf(d.key))

\* ------------------------------------------------------------ claims
\* C1: closure completeness.  When flatten_message has written its documents,
\* every reference value in every declaration of every document it wrote
\* that does not name the schema language resolves, in that document, to a
\* declaration present in some document of the run or to a namespace the
\* document imports.
C1_ClosureCompleteness ==
    Flattened =>
      \A doc \in RunDocs : \A dn \in RefNodes(doc) :
        LET r == ResolveOut(dn[1].nodes[dn[2]].val, doc)
        IN \/ r[1] = XSD_NS
           \/ \E doc2 \in RunDocs : \E d2 \in Range(doc2.decls) : DeclKey(d2) = r
           \/ \E i \in DOMAIN doc.imports : doc.imports[i].namespace = r[1]

\* The prefixes a generated document binds to namespace ns in its namespace
\* declarations or writes in front of a reference that resolved to ns.
PrefixesFor(doc, ns) ==
    {doc.xmlns[i][1] : i \in {j \in DOMAIN doc.xmlns : doc.xmlns[j][2] = ns}}
    \cup {split_qname(dn[1].nodes[dn[2]].val)[1] :
            dn \in {x \in RefNodes(doc) :
                      /\ ResolveOrig(x[1], x[2])[1] = ns
                      /\ split_qname(x[1].nodes[x[2]].val)[1] # None}}

\* The namespaces the documents of the run bind or refer to.
DocNamespaces ==
    UNION {{doc.xmlns[i][2] : i \in DOMAIN doc.xmlns}
           \cup {ResolveOrig(dn[1], dn[2])[1] : dn \in RefNodes(doc)} : doc \in RunDocs}

\* C2 as stated: prefix consistency.  Every two documents written in one run
\* of flatten_message that bind or use a prefix for a namespace use the same
\* prefix for it, whatever the namespace.
C2_PrefixConsistencyAll ==
    \A ns \in DocNamespaces : \A d1, d2 \in RunDocs :
      \A p1 \in PrefixesFor(d1, ns) : \A p2 \in PrefixesFor(d2, ns) : p1 = p2

\* C2 amended: prefix consistency for every namespace other than the entry
\* document's target namespace, which is the default namespace of the main
\* document and has the prefix msg in the documents of the common namespaces.
C2_PrefixConsistency ==
    written # << >> =>
      \A ns \in DocNamespaces \ {main_ns} : \A d1, d2 \in RunDocs :
        \A p1 \in PrefixesFor(d1, ns) : \A p2 \in PrefixesFor(d2, ns) : p1 = p2

\* C2 witness: two documents of a finished run bind or use a prefix for the
\* same common namespace.
C2_Witness ==
    /\ Flattened
    /\ \E w1, w2 \in Written : \E ns \in DocNamespaces \ {main_ns, XSD_NS} :
         /\ w1[1] # w2[1]
         /\ PrefixesFor(w1[2], ns) # {}
         /\ PrefixesFor(w2[2], ns) # {}

\* C3: determinism.  The documents a run of flatten_message has written are
\* the documents it writes for every order in which the set of reachable
\* keys and the set of the other common namespaces can be iterated.
C3_Determinism ==
    Flattened =>
      \A o \in Perms({k[1] : k \in used_keys}) :
        /\ <<output_path, MainDoc(PlanFor(o))>> \in Written
        /\ \A i \in DOMAIN PlanFor(o).cns_namespaces :
             \A oth \in Perms(used_other_cns(PlanFor(o).cns_namespaces[i][1], PlanFor(o))) :
               <<ct_output_path(PlanFor(o).cns_namespaces[i][1]),
                 CommonDoc(PlanFor(o).cns_namespaces[i][1], oth, PlanFor(o))>> \in Written

\* C4: minimality.  Every declaration of every document written by
\* flatten_message has a key in the set find_used_definitions returned.
C4_Minimality ==
    \A doc \in RunDocs : \A i \in DOMAIN doc.decls : DeclKey(doc.decls[i]) \in used_keys

\* C4 witness: a finished run wrote declarations and left out a declaration
\* of the global table that is not reachable.
C4_Witness ==
    /\ Flattened
    /\ \E doc \in RunDocs : doc.decls # << >>
    /\ \E k \in DictKeys(global_definitions) : k \notin used_keys

\* C5: no main-namespace leakage.  No document of a common namespace holds a
\* declaration of the entry document's target namespace, and every
\* declaration it holds is of the document's own namespace.
C5_NoMainLeakage ==
    \A w \in Written : IsCommon(w) =>
      \A i \in DOMAIN w[2].decls :
        /\ DeclKey(w[2].decls[i])[1] # main_ns
        /\ DeclKey(w[2].decls[i])[1] = w[2].targetNamespace

\* C5 witness: a finished run wrote a common document with a declaration and
\* a main document with a declaration.
C5_Witness ==
    /\ Flattened
    /\ \E w \in Written : IsCommon(w) /\ w[2].decls # << >>
    /\ \E w \in Written : ~IsCommon(w) /\ w[2].decls # << >>

\* The keys of the global table the element stored for key k refers to.
RefKeys(k) ==
    IF ~DictHas(global_definitions, k) \/ OriginOf(k) = None THEN {}
    ELSE LET values == RefValues(ElementAt(DictGet(global_definitions, k)).nodes)
             keys == {ResolveIn(values[i], OriginOf(k)) : i \in DOMAIN values}
         IN {r \in keys \ {NoKey} : r[1] # XSD_NS /\ DictHas(global_definitions, r)}

RECURSIVE LeastClosure(_)
\* The least set that contains S and is closed under RefKeys.
LeastClosure(S) ==
    LET T == S \cup UNION {RefKeys(k) : k \in S}
    IN IF T = S THEN S ELSE LeastClosure(T)

\* The keys of the entry document's own definitions map.
EntryKeys ==
    {SchemaAt(main_info).definitions[i][1] : i \in DOMAIN SchemaAt(main_info).definitions}

\* find_used_definitions has returned.
FindFinished ==
    /\ main_info # None
    /\ \/ pc = "find" /\ queue = << >>
       \/ pc \in {"emit", "copy", "return", "crashed"}

\* C6: reachability is the least closure.  While find_used_definitions runs
\* its set stays inside the least set that contains the seed keys and is
\* closed under the references to keys of the global table outside the
\* schema language; when it returns its set is exactly that set.
C6_LeastClosure ==
    /\ (pc = "find" /\ main_info # None) => used_keys \subseteq LeastClosure(EntryKeys)
    /\ FindFinished => used_keys = LeastClosure(EntryKeys)

\* C6 witness: find_used_definitions has returned a key that is neither a
\* seed nor referred to by a seed.
C6_Witness ==
    /\ FindFinished
    /\ \E k \in used_keys : k \notin EntryKeys \cup UNION {RefKeys(s) : s \in EntryKeys}

\* C7 as stated: seeding by namespace.  When find_used_definitions has
\* returned, every key of the global table whose namespace is the entry
\* document's target namespace is in the returned set.
C7_SeedingByNamespace ==
    FindFinished =>
      \A k \in DictKeys(global_definitions) : k[1] = main_ns => k \in used_keys

\* C7 amended: seeding by file.  When find_used_definitions has returned,
\* every key of the entry document's own definitions map is in the returned
\* set.
C7_Seeding ==
    FindFinished => EntryKeys \subseteq used_keys

\* C7 witness: find_used_definitions has returned a key of the entry document
\* that no returned key refers to, next to another key of the entry document.
C7_Witness ==
    /\ FindFinished
    /\ Cardinality(EntryKeys) > 1
    /\ \E k \in EntryKeys : k \in used_keys /\ \A k2 \in used_keys : k \notin RefKeys(k2)

\* C8: back-reference.  Every reference of a declaration written to the
\* document of a common namespace that resolved to the entry namespace is
\* written with a non-empty prefix, the document binds that prefix to the
\* entry namespace and the document imports the entry namespace.
C8_BackReference ==
    \A w \in Written : IsCommon(w) =>
      \A dn \in RefNodes(w[2]) :
        ResolveOrig(dn[1], dn[2])[1] = main_ns =>
          LET p == split_qname(dn[1].nodes[dn[2]].val)[1]
          IN /\ Truthy(p)
             /\ \E i \in DOMAIN w[2].xmlns : w[2].xmlns[i] = <<p, main_ns>>
             /\ \E i \in DOMAIN w[2].imports : w[2].imports[i].namespace = main_ns

\* Some reachable declaration refers to the namespace ns.
UsedByReachable(ns) == \E k \in used_keys : ns \in RefNamespaces(k)

\* C9: only used foreign schemas ship.  A generated document imports a
\* foreign namespace only if a reachable declaration refers to it, and a step
\* copies a foreign schema file to the output directory only if a reachable
\* declaration refers to the namespace the file was imported for.
C9_OnlyUsedForeign ==
    /\ [](\A doc \in RunDocs : \A i \in DOMAIN doc.imports :
            DictHas(external_schemas, doc.imports[i].namespace)
              => UsedByReachable(doc.imports[i].namespace))
    /\ [][\A p \in DictKeys(fs') \ DictKeys(fs) :
            DictGet(fs', p).kind = "copy" =>
              \E i \in DOMAIN external_schemas :
                /\ external_schemas[i][2] = p[2]
                /\ UsedByReachable(external_schemas[i][1])]_vars

\* C9 witness: an earlier run has copied a foreign schema file for a
\* namespace its reachable declarations referred to; the present run has
\* finished with that namespace referred to by a declaration outside its
\* reachable set only, and has not copied the file.
C9_Witness ==
    /\ pc = "return"
    /\ main_info # None
    /\ \E i \in DOMAIN external_schemas :
         /\ ~UsedByReachable(external_schemas[i][1])
         /\ \E k \in DictKeys(global_definitions) \ used_keys :
              external_schemas[i][1] \in RefNamespaces(k)
         /\ ~DictHas(fs, <<output_dir, external_schemas[i][2]>>)
         /\ \E p \in DictKeys(fs) :
              /\ DictGet(fs, p).kind = "copy"
              /\ p[2] = external_schemas[i][2]

\* The prefixes the plan assigns: to the common namespaces, to the used
\* foreign namespaces, xs to the schema language and msg to the entry
\* namespace.
Assignment ==
    Range(plan.cns_namespaces) \cup Range(plan.external_ns_prefixes)
      \cup {<<XSD_NS, "xs">>, <<main_ns, "msg">>}

\* C10: the prefix assignment is injective.  Once flatten_message has its
\* plan, no two different namespaces have the same prefix.
C10_InjectivePrefixes ==
    Planned => \A a, b \in Assignment : a[2] = b[2] => a[1] = b[1]

\* The generated schema documents in the output directory of the current run.
OutputFiles ==
    {p \in DictKeys(fs) : p[1] = output_dir /\ DictGet(fs, p).kind = "schema"}

\* C11: every reachable declaration survives.  When flatten_message has
\* finished, every key of the reachable set is the key of a declaration of a
\* generated file in the output directory whose targetNamespace is the
\* namespace of the key.
C11_ReachableSurvives ==
    Flattened =>
      \A k \in used_keys : \E p \in OutputFiles :
        /\ DictGet(fs, p).targetNamespace = k[1]
        /\ \E i \in DOMAIN DictGet(fs, p).decls : DeclKey(DictGet(fs, p).decls[i]) = k

\* C12: every prefix is declared where it is used.  Every reference value
\* with a prefix in a declaration of a document written by flatten_message
\* has its prefix bound by a namespace declaration of that document.
C12_PrefixesDeclared ==
    \A doc \in RunDocs : \A dn \in RefNodes(doc) :
      LET p == split_qname(dn[1].nodes[dn[2]].val)[1]
      IN p # None => \E i \in DOMAIN doc.xmlns : doc.xmlns[i][1] = p

\* C13: every generated document imports every other namespace it
\* references.  Every reference of a declaration of a document written by
\* flatten_message that resolved to a namespace other than the document's
\* target namespace and the schema language has an import of that namespace
\* in the document.
C13_ImportsReferenced ==
    \A doc \in RunDocs : \A dn \in RefNodes(doc) :
      LET ns == ResolveOrig(dn[1], dn[2])[1]
      IN (ns # None /\ ns # doc.targetNamespace /\ ns # XSD_NS)
           => \E i \in DOMAIN doc.imports : doc.imports[i].namespace = ns

\* C14: the entry namespace is never common or foreign.  Once flatten_message
\* has its plan, the entry document's target namespace has no common prefix,
\* is not in the set of used foreign namespaces and has no foreign prefix; no
\* document of a common namespace is written for it and no file recorded as
\* the external schema of it is copied to the output directory.
C14_MainNeverCommonOrForeign ==
    Planned =>
      /\ ~DictHas(plan.cns_namespaces, main_ns)
      /\ main_ns \notin plan.used_external_namespaces
      /\ ~DictHas(plan.external_ns_prefixes, main_ns)
      /\ \A w \in Written : IsCommon(w) => w[2].targetNamespace # main_ns
      /\ \A i \in DOMAIN external_schemas :
           external_schemas[i][1] = main_ns =>
             ~(/\ DictHas(fs, <<output_dir, external_schemas[i][2]>>)
               /\ DictGet(fs, <<output_dir, external_schemas[i][2]>>).kind = "copy")

RECURSIVE FreshVisit(_, _)
RECURSIVE FreshChildren(_, _)
\* The paths a freshly constructed SchemaFlattener has in self.schemas, in
\* insertion order, after load_schema(filename) when it had the paths seen
\* before: the file itself, then what the loop over its children loads.
FreshVisit(filename, seen) ==
    IF AbsPath(filename) \in Range(seen) \/ ~Parses(AbsPath(filename)) THEN seen
    ELSE FreshChildren(corpus[AbsPath(filename)].children, Append(seen, AbsPath(filename)))

\* The loop over the children of a loaded file.
FreshChildren(children, seen) ==
    IF children = << >> THEN seen
    ELSE FreshChildren(Tail(children),
           IF IsImport(Head(children)) /\ ~IsExternal(Head(children))
           THEN FreshVisit(Head(children).schemaLocation, seen)
           ELSE seen)

\* self.schemas of a freshly constructed SchemaFlattener after it has loaded
\* the entry document of the current run.
FreshSchemas ==
    LET order == FreshVisit(fname, << >>)
    IN [i \in DOMAIN order |-> <<order[i], SchemaInfo(order[i])>>]

\* The first non-empty prefix the documents of FreshSchemas bind to ns.
FreshPrefix(ns) ==
    LET items == AllPrefixItems(FreshSchemas)
        i == FirstIndex([j \in DOMAIN items |-> items[j][2] = ns /\ Truthy(items[j][1])])
    IN IF i = 0 THEN None ELSE items[i][1]

\* The namespaces a freshly constructed SchemaFlattener records as external
\* while it loads the entry document of the current run.
FreshExternal ==
    {ch.namespace : ch \in {c \in UNION {Range(corpus[FreshSchemas[i][1]].children) :
                                            i \in DOMAIN FreshSchemas} :
                              IsImport(c) /\ IsExternal(c)}}

\* C15: flatten sessions do not interfere.  The plan of a run agrees with
\* what a freshly constructed SchemaFlattener works out for the same entry
\* document: every reachable declaration comes from a document the fresh
\* flattener loads, every common namespace has the prefix the fresh flattener
\* finds for it, and every used foreign namespace is one the fresh flattener
\* records.
C15_SessionsIndependent ==
    Planned =>
      /\ \A k \in used_keys : OriginOf(k) \in {FreshSchemas[i][1] : i \in DOMAIN FreshSchemas}
      /\ \A i \in DOMAIN plan.cns_namespaces :
           FreshPrefix(plan.cns_namespaces[i][1]) # None
             => plan.cns_namespaces[i][2] = FreshPrefix(plan.cns_namespaces[i][1])
      /\ plan.used_external_namespaces \subseteq FreshExternal

\* C16: memoized load.  A call of load_schema for a path that is already in
\* self.schemas returns at once with the stored record: it pushes no new
\* frame, leaves the loaded documents, the global table and the recorded
\* foreign imports as they are (the caller's loop appends the path to the
\* imports of its own record), and flatten_message gets the stored record.
C16_MemoizedLoad ==
    [][(pc = "load" /\ call # None /\ DictHas(schemas, AbsPath(call))) =>
         /\ call' = None
         /\ Len(stack') = Len(stack)
         /\ global_definitions' = global_definitions
         /\ external_schemas' = external_schemas
         /\ Len(schemas') = Len(schemas)
         /\ \A i \in DOMAIN schemas :
              /\ schemas'[i][1] = schemas[i][1]
              /\ (stack = << >> \/ schemas[i][1] # Top.path) => schemas'[i] = schemas[i]
              /\ [schemas'[i][2] EXCEPT !.imports = << >>]
                   = [schemas[i][2] EXCEPT !.imports = << >>]
         /\ stack = << >> => main_info' = AbsPath(call)]_vars

\* C16 witness: the entry document was loaded by an earlier run, and the
\* load_schema call of the present run has returned its stored record to
\* flatten_message.
C16_Witness ==
    /\ pc = "seed"
    /\ fi = 2
    /\ target_files[1] = target_files[2]
    /\ main_info = AbsPath(fname)
    /\ DictHas(schemas, main_info)

\* C17: version propagation.  Every document written by flatten_message
\* carries the version attribute of the entry document when the entry
\* document has one, and "1.0" otherwise.
C17_VersionPropagated ==
    \A doc \in RunDocs :
      doc.version = IF corpus[AbsPath(fname)].version = NoAttr THEN "1.0"
                    ELSE corpus[AbsPath(fname)].version

\* ------------------------------------------------------------ resolve_reference on its own
\* The arguments of the calls of resolve_reference looked at: values with at
\* most one colon, target namespaces, and prefix maps with and without a
\* binding of xs and of the empty (default) prefix.
ResolveValues ==
    { << >>, U("T"), Q("cns", "T"), Q("xs", "string"), Q("q", "Zed"), Q("m", "Hdr"),
      Q("c2", "U"), <<":", "T">> }
ResolveNamespaces == {"", NsM, Ns1}
ResolvePrefixMaps ==
    { << >>,
      <<XS>>,
      <<XS, <<"", NsM>>>>,
      <<XS, <<"", Ns1>>, <<"cns", Ns1>>>>,
      <<<<"", Ns2>>, <<"cns", Ns1>>, <<"m", NsM>>>>,
      <<<<"xs", Ns2>>, <<"q", NsF>>, <<"c2", Ns2>>>> }

\* A call resolve_reference(value, current_ns, prefix_map) is made.
InitResolve ==
    /\ corpus = StdCorpus
    /\ target_files = << >>
    /\ fi = 1
    /\ pc = "resolve"
    /\ schemas = << >>
    /\ global_definitions = << >>
    /\ external_schemas = << >>
    /\ call = None
    /\ stack = << >>
    /\ main_info = None
    /\ used_keys = {}
    /\ queue = << >>
    /\ plan = NoPlan
    /\ emitted = 0
    /\ written = << >>
    /\ fs = << >>
    /\ trees = << >>
    /\ \E value \in ResolveValues, current_ns \in ResolveNamespaces,
          prefix_map \in ResolvePrefixMaps :
         fcall = [name |-> "resolve_reference", args |-> <<value, current_ns, prefix_map>>,
                  done |-> FALSE, result |-> << >>]

\* The call returns.
Resolve ==
    /\ pc = "resolve"
    /\ ~fcall.done
    /\ fcall' = [fcall EXCEPT !.done = TRUE,
                              !.result = resolve_reference(fcall.args[1], fcall.args[2],
                                                           fcall.args[3])]
    /\ UNCHANGED <<corpus, target_files, fi, pc, schemas, global_definitions,
                   external_schemas, call, stack, main_info, used_keys, queue, plan,
                   emitted, written, fs, trees>>

SpecResolve == InitResolve /\ [][Resolve]_vars

\* The reference function of resolve_reference for a value with at most one
\* colon: the prefix is the token before the colon, the local name the token
\* after it.
ReferenceResolve(value, current_ns, bindings) ==
    CASE value = << >> -> NoKey
      [] Len(value) = 1 -> <<current_ns, value[1]>>
      [] Len(value) = 2 /\ value[1] = ":" -> <<current_ns, value[2]>>
      [] Len(value) = 3 /\ value[2] = ":" ->
           IF \E i \in DOMAIN bindings : bindings[i][1] = value[1] /\ bindings[i][2] # ""
           THEN <<(CHOOSE b \in Range(bindings) : b[1] = value[1])[2], value[3]>>
           ELSE IF value[1] = "xs" THEN <<XSD_NS, value[3]>>
           ELSE <<None, value[3]>>

\* C18: resolve_reference equals the reference function.  An empty value
\* gives None; a prefix bound to a non-empty namespace gives that namespace;
\* an unbound xs gives the schema language; any other unbound prefix gives
\* the namespace None; a value without a prefix gives the current namespace,
\* whatever the bindings say about the default namespace.
C18_ResolveReference ==
    (fcall.name = "resolve_reference" /\ fcall.done) =>
      fcall.result = ReferenceResolve(fcall.args[1], fcall.args[2], fcall.args[3])

\* C18 witness: a call with a value without a prefix, under bindings whose
\* default namespace is not the current namespace, has returned the current
\* namespace.
C18_Witness ==
    /\ fcall.name = "resolve_reference"
    /\ fcall.done
    /\ Len(fcall.args[1]) = 1
    /\ \E i \in DOMAIN fcall.args[3] :
         fcall.args[3][i][1] = "" /\ fcall.args[3][i][2] # fcall.args[2]
    /\ fcall.result = <<fcall.args[2], fcall.args[1][1]>>

\* C19: the reachable set stays inside the global table.  At every step of
\* find_used_definitions and afterwards, every key of the reachable set and
\* of the queue is a key of the global table and has a namespace.
C19_ReachableInTable ==
    \A k \in used_keys \cup Range(queue) :
      DictHas(global_definitions, k) /\ k[1] # None

\* C19 witness: flatten_message has its plan, and a reachable declaration has
\* a reference outside the schema language that resolves to no key of the
\* global table.
C19_Witness ==
    /\ Planned
    /\ \E k \in used_keys :
         \E v \in Range(RefValues(ElementAt(DictGet(global_definitions, k)).nodes)) :
           /\ ResolveIn(v, OriginOf(k))[1] # XSD_NS
           /\ ~DictHas(global_definitions, ResolveIn(v, OriginOf(k)))

\* C20: every key is put on the queue at most once.  A step of
\* find_used_definitions appends to the queue only keys that were not in the
\* reachable set before, and every key of the queue is in the reachable set.
C20_EnqueuedOnce ==
    /\ [](Range(queue) \subseteq used_keys)
    /\ [](\A i, j \in DOMAIN queue : queue[i] = queue[j] => i = j)
    /\ [][(pc = "find" /\ pc' = "find") =>
            /\ used_keys \subseteq used_keys'
            /\ \E n \in 0..Len(queue') :
                 /\ Len(queue') = Len(queue) - 1 + n
                 /\ SubSeq(queue', 1, Len(queue) - 1) = Tail(queue)
                 /\ \A i \in (Len(queue)..Len(queue')) : queue'[i] \notin used_keys]_vars

\* C20 witness: find_used_definitions has handled two different keys that
\* both refer to a third key, which is no seed and was put on the queue by
\* the first of them.
C20_Witness ==
    /\ pc = "find"
    /\ \E r \in used_keys \ EntryKeys :
         \E k1, k2 \in used_keys \ Range(queue) :
           k1 # k2 /\ r \in RefKeys(k1) /\ r \in RefKeys(k2)

\* ------------------------------------------------------------ termination
\* The while loop of find_used_definitions has an iteration to run.
FindStepEnabled == pc = "find" /\ queue # << >>

\* A step of load_schema.
LoadStep ==
    \/ LoadMemo
    \/ LoadFail
    \/ LoadParse
    \/ LoadOtherChild
    \/ LoadExternalImport
    \/ LoadRecurse
    \/ LoadReturn

\* The program is one thread that always takes its next step: a started
\* load_schema and a started find_used_definitions go on.  The last
\* condition is WF_vars(FindStep) with ENABLED <<FindStep>>_vars written out
\* as FindStepEnabled.
SpecLive ==
    /\ Init /\ [][Next]_vars
    /\ WF_vars(LoadStep)
    /\ WF_vars(FindSeed)
    /\ ([]<>(~FindStepEnabled) \/ []<><<FindStep>>_vars)

\* C21: find_used_definitions terminates.  Whenever it starts, with whatever
\* global table the loads have built, its work queue becomes empty.
C21_FindTerminates ==
    (pc = "seed") ~> (pc = "find" /\ queue = << >>)

\* C21 witness: find_used_definitions has emptied its queue over a table in
\* which two different reachable declarations refer to each other.
C21_Witness ==
    /\ pc = "find"
    /\ queue = << >>
    /\ \E k1, k2 \in used_keys : k1 # k2 /\ k2 \in RefKeys(k1) /\ k1 \in RefKeys(k2)

\* ------------------------------------------------------------ load_schema
\* The loop of the innermost load_schema call is at an import or include
\* with a schemaLocation.
AtImport ==
    /\ pc = "load"
    /\ call = None
    /\ stack # << >>
    /\ Top.i <= Len(TopFile.children)
    /\ IsImport(TopChild)

\* The import the loop is at names a namespace outside the project's family.
AtForeignImport ==
    AtImport /\ Truthy(TopChild.namespace) /\ ~StartsWithIata(TopChild.namespace)

\* The paths load_schema is called for: the entry files and the locations of
\* the imports and includes of the loaded documents that are not foreign.
LoadCalls ==
    {AbsPath(target_files[i]) : i \in DOMAIN target_files} \cup
    UNION {{AbsPath(c.schemaLocation) :
              c \in {d \in Range(corpus[schemas[j][1]].children) :
                       /\ IsImport(d)
                       /\ ~(Truthy(d.namespace) /\ ~StartsWithIata(d.namespace))}} :
           j \in DOMAIN schemas}

\* C22: load_schema never recurses into a foreign import.  At such an import
\* no call of load_schema is made, the document store and the global table
\* stay as they are and the namespace gets its schemaLocation unless it has
\* one already; at every other import or include with a schemaLocation,
\* load_schema is called for the location.  So a document is in the store
\* only as an entry file or through an import that is not foreign, and every
\* declaration of the global table comes from a document of the store.
C22_NoForeignRecursion ==
    /\ [][AtForeignImport =>
            /\ call' = None
            /\ stack' = [stack EXCEPT ![Len(stack)].i = @ + 1]
            /\ DictKeys(schemas') = DictKeys(schemas)
            /\ global_definitions' = global_definitions
            /\ IF DictHas(external_schemas, TopChild.namespace)
               THEN external_schemas' = external_schemas
               ELSE external_schemas' =
                      Append(external_schemas, <<TopChild.namespace, TopChild.schemaLocation>>)]_vars
    /\ [][(AtImport /\ ~AtForeignImport) =>
            /\ call' = TopChild.schemaLocation
            /\ stack' = stack
            /\ external_schemas' = external_schemas]_vars
    /\ [](DictKeys(schemas) \subseteq LoadCalls)
    /\ [](\A i \in DOMAIN global_definitions :
            DictHas(schemas, global_definitions[i][2][1]))

\* C22 witness: the load of an entry has finished; it passed two foreign
\* imports of one namespace with different locations, the first location is
\* the recorded one, and its file, which parses, is not in the store and has
\* no declaration in the global table.
C22_Witness ==
    /\ pc = "seed"
    /\ \E j \in DOMAIN schemas : \E c1, c2 \in Range(corpus[schemas[j][1]].children) :
         /\ IsImport(c1) /\ IsImport(c2)
         /\ c1.namespace = c2.namespace
         /\ Truthy(c1.namespace) /\ ~StartsWithIata(c1.namespace)
         /\ c1.schemaLocation # c2.schemaLocation
         /\ DictGet(external_schemas, c1.namespace) = c1.schemaLocation
         /\ Parses(AbsPath(c1.schemaLocation))
         /\ ~DictHas(schemas, AbsPath(c1.schemaLocation))
         /\ \A k \in DictKeys(DefsOf(AbsPath(c1.schemaLocation), corpus[AbsPath(c1.schemaLocation)])) :
              ~DictHas(global_definitions, k)

\* The file at path is missing or is not well-formed XML.
Unparsable(path) == path \notin DOMAIN corpus \/ ~corpus[path].parses

\* A call of load_schema has been made for a path that is not in the store
\* and cannot be parsed.
AtFailingLoad ==
    /\ pc = "load"
    /\ call # None
    /\ ~DictHas(schemas, AbsPath(call))
    /\ Unparsable(AbsPath(call))

\* No call of load_schema is active.
LoadIdle == stack = << >> /\ call = None

\* The imports and includes of the loaded document at path that load_schema
\* follows: those with a schemaLocation that are not foreign.
FollowedImports(path) ==
    {c \in Range(corpus[path].children) :
        IsImport(c) /\ ~(Truthy(c.namespace) /\ ~StartsWithIata(c.namespace))}

\* C23: a parse failure is local.  A call for a document that cannot be
\* parsed returns None, makes no record and leaves the global table as it is:
\* flatten_message returns when the call was its own, and otherwise the loop
\* of the calling load_schema goes on with its next child.  No stored
\* document is one that cannot be parsed; and once the loads are over, every
\* stored document has all its declarations' keys in the global table and
\* every parsable document it imports is stored, whether or not one of its
\* other imports failed.
C23_ParseFailureLocal ==
    /\ [][AtFailingLoad =>
            /\ call' = None
            /\ DictKeys(schemas') = DictKeys(schemas)
            /\ Len(schemas') = Len(schemas)
            /\ global_definitions' = global_definitions
            /\ external_schemas' = external_schemas
            /\ IF stack = << >>
               THEN main_info' = None /\ pc' = "return" /\ stack' = stack
               ELSE /\ pc' = pc
                    /\ stack' = [stack EXCEPT ![Len(stack)].i = @ + 1]
                    /\ schemas'[CHOOSE j \in DOMAIN schemas : schemas[j][1] = Top.path][2].definitions
                         = SchemaAt(Top.path).definitions]_vars
    /\ [](\A j \in DOMAIN schemas : ~Unparsable(schemas[j][1]))
    /\ [](LoadIdle =>
            \A j \in DOMAIN schemas :
              /\ \A k \in DictKeys(schemas[j][2].definitions) : DictHas(global_definitions, k)
              /\ \A c \in FollowedImports(schemas[j][1]) :
                   Unparsable(AbsPath(c.schemaLocation)) \/ DictHas(schemas, AbsPath(c.schemaLocation)))
    /\ []((LoadIdle /\ pc = "seed") => main_info = AbsPath(fname))

\* C23 witness: the load of the entry document D has returned D's record
\* although one of D's imports could not be parsed; a later import of D is
\* stored and D's declarations are in the global table.
C23_Witness ==
    /\ pc = "seed"
    /\ main_info = AbsPath(fname)
    /\ \E i, j \in DOMAIN corpus[main_info].children :
         LET ci == corpus[main_info].children[i]
             cj == corpus[main_info].children[j]
         IN /\ i < j
            /\ ci \in FollowedImports(main_info)
            /\ cj \in FollowedImports(main_info)
            /\ Unparsable(AbsPath(ci.schemaLocation))
            /\ ~DictHas(schemas, AbsPath(ci.schemaLocation))
            /\ DictHas(schemas, AbsPath(cj.schemaLocation))
    /\ SchemaAt(main_info).definitions # << >>
    /\ \A k \in DictKeys(SchemaAt(main_info).definitions) : DictHas(global_definitions, k)

\* The positions in the store of the documents that define key k.
Definers(k) == {j \in DOMAIN schemas : DictHas(schemas[j][2].definitions, k)}

\* Last-write-wins: the keys of the global table are the keys the stored
\* documents define, and each key holds the declaration of the document
\* stored last among those that define it.
LastWriteWins ==
    /\ DictKeys(global_definitions) =
         UNION {DictKeys(schemas[j][2].definitions) : j \in DOMAIN schemas}
    /\ \A k \in DictKeys(global_definitions) :
         \E j \in Definers(k) :
           /\ \A j2 \in Definers(k) : j2 <= j
           /\ DictGet(global_definitions, k) = DictGet(schemas[j][2].definitions, k)

\* A document's record and declarations are put in before any of its imports
\* is followed.
InsertedBeforeImports ==
    [][(pc = "load" /\ call # None /\ Len(schemas') = Len(schemas) + 1) =>
         /\ schemas'[Len(schemas')][1] = AbsPath(call)
         /\ \A k \in DictKeys(schemas'[Len(schemas')][2].definitions) :
              DictGet(global_definitions', k) = DictGet(schemas'[Len(schemas')][2].definitions, k)
         /\ stack' = Append(stack, [path |-> AbsPath(call), i |-> 1])
         /\ call' = None]_vars

\* The stored documents D and I, I followed from D, where both define a key
\* and the global table holds D's declaration for it.
ImporterWins(d, i) ==
    /\ d # i
    /\ \E c \in FollowedImports(schemas[d][1]) : AbsPath(c.schemaLocation) = schemas[i][1]
    /\ \E k \in DictKeys(schemas[d][2].definitions) :
         /\ DictHas(schemas[i][2].definitions, k)
         /\ DictGet(global_definitions, k) = DictGet(schemas[d][2].definitions, k)

\* C24 as stated: last-write-wins, and the declaration of a document that is
\* imported or included overrides the same-key declaration of its importer,
\* whichever of the two was loaded first.
C24_ImportedOverridesAlways ==
    /\ LastWriteWins
    /\ LoadIdle => \A d, i \in DOMAIN schemas : ~ImporterWins(d, i)

\* C24 amended: last-write-wins; a document's declarations are inserted
\* before its imports are followed; and the declaration of an imported or
\* included document overrides the same-key declaration of its importer when
\* the imported document was not in the store before the importer.
C24_LastWriteWins ==
    /\ []LastWriteWins
    /\ InsertedBeforeImports
    /\ [](LoadIdle => \A d, i \in DOMAIN schemas : d < i => ~ImporterWins(d, i))

\* C24 witness: the entry and a document it includes, stored after it, define
\* the same key, and the global table holds the declaration of the included
\* document.
C24_Witness ==
    /\ LoadIdle
    /\ \E d, i \in DOMAIN schemas :
         /\ d < i
         /\ \E c \in FollowedImports(schemas[d][1]) : AbsPath(c.schemaLocation) = schemas[i][1]
         /\ \E k \in DictKeys(schemas[d][2].definitions) :
              /\ DictHas(schemas[i][2].definitions, k)
              /\ DictGet(schemas[i][2].definitions, k) # DictGet(schemas[d][2].definitions, k)
              /\ DictGet(global_definitions, k) = DictGet(schemas[i][2].definitions, k)

\* ------------------------------------------------------------ rewriting
\* The table of re-encodings: the text written for a reference that resolved
\* to the key r, in a common document (in_common) or in the main document.
RewriteTable(r, in_common) ==
    CASE r[1] = XSD_NS -> Q("xs", r[2])
      [] r[1] # XSD_NS /\ DictHas(plan.cns_namespaces, r[1]) ->
           Q(DictGet(plan.cns_namespaces, r[1]), r[2])
      [] r[1] # XSD_NS /\ ~DictHas(plan.cns_namespaces, r[1]) /\ r[1] = main_ns ->
           IF in_common THEN Q("msg", r[2]) ELSE U(r[2])
      [] /\ r[1] # XSD_NS /\ ~DictHas(plan.cns_namespaces, r[1]) /\ r[1] # main_ns
         /\ r[1] \in plan.used_external_namespaces ->
           Q(DictGet(plan.external_ns_prefixes, r[1]), r[2])
      [] OTHER -> U(r[2])

\* C25: in every document flatten_message writes, every node of every
\* declaration that carried a non-empty reference value in the source
\* carries the re-encoding the table gives for what the value resolved to in
\* its origin document, and every other node is as in the source.
C25_RewriteTable ==
    \A w \in Written : \A d \in Range(w[2].decls) :
      /\ Len(d.nodes) = Len(ElementAt(d.element).nodes)
      /\ \A i \in DOMAIN d.nodes :
           LET orig == ElementAt(d.element).nodes[i]
           IN IF IsRef(orig)
              THEN /\ d.nodes[i].attr = orig.attr
                   /\ d.nodes[i].val = RewriteTable(ResolveOrig(d, i), IsCommon(w))
              ELSE d.nodes[i] = orig

\* C25 witness: a finished run wrote a common document in which a reference
\* to the entry namespace has the back-reference prefix and a reference to a
\* common namespace has the assigned prefix, and a main document with a
\* reference.
C25_Witness ==
    /\ Flattened
    /\ \E w \in Written :
         /\ IsCommon(w)
         /\ \E dn \in RefNodes(w[2]) :
              /\ ResolveOrig(dn[1], dn[2])[1] = main_ns
              /\ dn[1].nodes[dn[2]].val = Q("msg", ResolveOrig(dn[1], dn[2])[2])
    /\ \E w \in Written : \E dn \in RefNodes(w[2]) :
         /\ DictHas(plan.cns_namespaces, ResolveOrig(dn[1], dn[2])[1])
         /\ dn[1].nodes[dn[2]].val =
              Q(DictGet(plan.cns_namespaces, ResolveOrig(dn[1], dn[2])[1]), ResolveOrig(dn[1], dn[2])[2])
    /\ \E w \in Written : ~IsCommon(w) /\ RefNodes(w[2]) # {}

\* ------------------------------------------------------------ stored declarations
\* C26: flattening never changes a stored declaration.  In every state, the
\* tree in memory of every stored document is the tree that was parsed from
\* its file, and no step changes a tree that is in memory: every declaration
\* of the document store and of the global table has the attribute values it
\* was loaded with, whatever has been flattened before.
C26_StoredUnchanged ==
    /\ [](\A j \in DOMAIN schemas :
            /\ DictHas(trees, schemas[j][1])
            /\ DictGet(trees, schemas[j][1]) = corpus[schemas[j][1]].children)
    /\ [](\A i \in DOMAIN global_definitions :
            ElementAt(global_definitions[i][2]) =
              corpus[global_definitions[i][2][1]].children[global_definitions[i][2][2]])
    /\ [][\A t \in DOMAIN trees : trees'[t] = trees[t]]_vars

\* C26 witness: the second of two flatten_message calls for the same entry
\* has written a declaration whose references it re-encoded to a text other
\* than the source's, as the first call did, and the stored declaration
\* still has the source's text.
C26_Witness ==
    /\ Flattened
    /\ fi = 2
    /\ target_files[1] = target_files[2]
    /\ \E w \in Written : \E d \in Range(w[2].decls) : \E i \in DOMAIN d.nodes :
         /\ d.nodes[i].val # corpus[d.element[1]].children[d.element[2]].nodes[i].val
         /\ ElementAt(d.element).nodes[i].val
              = corpus[d.element[1]].children[d.element[2]].nodes[i].val

\* ------------------------------------------------------------ imports between common documents
\* Some reachable declaration of namespace a has a reference that resolves
\* to namespace b.
RefersTo(a, b) == \E k \in used_keys : k[1] = a /\ b \in RefNamespaces(k)

\* C27: cross-common imports.  The document written for a common namespace A
\* has an import of a different common namespace B if and only if a
\* reachable declaration of A has a reference that resolves to B; the import
\* is there once, its schemaLocation is the name of the file of B's document,
\* and the document declares B's assigned prefix.
C27_CrossCommonImports ==
    \A w \in Written : IsCommon(w) =>
      \A b \in DictKeys(plan.cns_namespaces) \ {w[2].targetNamespace} :
        LET at == {i \in DOMAIN w[2].imports : w[2].imports[i].namespace = b}
        IN /\ (at # {}) <=> RefersTo(w[2].targetNamespace, b)
           /\ Cardinality(at) <= 1
           /\ \A i \in at :
                /\ <<output_dir>> \o w[2].imports[i].schemaLocation = ct_output_path(b)
                /\ \E x \in DOMAIN w[2].xmlns :
                     w[2].xmlns[x] = <<DictGet(plan.cns_namespaces, b), b>>

\* C27 witness: a finished run wrote the document of a common namespace
\* that imports another common namespace, and the document of a common
\* namespace that does not import another one.
C27_Witness ==
    /\ Flattened
    /\ \E w \in Written : \E b \in DictKeys(plan.cns_namespaces) \ {w[2].targetNamespace} :
         /\ IsCommon(w)
         /\ RefersTo(w[2].targetNamespace, b)
         /\ \E i \in DOMAIN w[2].imports : w[2].imports[i].namespace = b
    /\ \E w \in Written : \E b \in DictKeys(plan.cns_namespaces) \ {w[2].targetNamespace} :
         /\ IsCommon(w)
         /\ ~RefersTo(w[2].targetNamespace, b)
         /\ \A i \in DOMAIN w[2].imports : w[2].imports[i].namespace # b

\* ------------------------------------------------------------ copying foreign schemas
\* C28: copying foreign schemas never overwrites.  A copy appears in the
\* output tree only by _copy_external_schemas, at a destination that was not
\* there, from a source file that exists, for a namespace of the used set;
\* and no step changes or removes a copy that is in the output tree, in the
\* run that made it or in a later one.
C28_CopyNeverOverwrites ==
    /\ [][\A p \in DictKeys(fs') :
            (DictGet(fs', p).kind = "copy" /\ (~DictHas(fs, p) \/ DictGet(fs, p) # DictGet(fs', p)))
              => /\ pc = "copy"
                 /\ ~DictHas(fs, p)
                 /\ \E i \in DOMAIN external_schemas :
                      /\ p = <<output_dir, external_schemas[i][2]>>
                      /\ external_schemas[i][1] \in plan.used_external_namespaces
                      /\ external_schemas[i][2] \in DOMAIN corpus
                      /\ DictGet(fs', p).source = <<external_schemas[i][2]>>]_vars
    /\ [][\A p \in DictKeys(fs) :
            DictGet(fs, p).kind = "copy" => DictHas(fs', p) /\ DictGet(fs', p) = DictGet(fs, p)]_vars

\* C28 witness: a second flatten_message call for the same entry has passed
\* _copy_external_schemas with the foreign namespace in its used set, and the
\* destination holds the copy the first call made.
C28_Witness ==
    /\ pc = "return"
    /\ main_info # None
    /\ fi = 2
    /\ \E i \in DOMAIN external_schemas :
         /\ external_schemas[i][1] \in plan.used_external_namespaces
         /\ DictHas(fs, <<output_dir, external_schemas[i][2]>>)
         /\ DictGet(fs, <<output_dir, external_schemas[i][2]>>).kind = "copy"
         /\ DictGet(fs, <<output_dir, external_schemas[i][2]>>).made_in = 1

\* The documents of the source directory that can be parsed.
Documents == {f \in DOMAIN corpus : corpus[f].parses}

\* C29: load_schema terminates.  Every load that flatten_message starts
\* returns to it, whatever cycles the imports and includes make.  The record
\* of every active call is in the store, the active calls are for different
\* paths and are no more than the documents; the store only grows, and a
\* path is parsed only when it is not in the store, so at most once.
C29_LoadTerminates ==
    /\ (pc = "load") ~> (pc \in {"seed", "return"})
    /\ [](/\ \A i \in DOMAIN stack : DictHas(schemas, stack[i].path)
          /\ \A i, j \in DOMAIN stack : stack[i].path = stack[j].path => i = j
          /\ Len(stack) <= Cardinality(Documents)
          /\ Len(schemas) <= Cardinality(Documents))
    /\ [][/\ Len(schemas') >= Len(schemas)
          /\ \A j \in DOMAIN schemas : schemas'[j][1] = schemas[j][1]
          /\ Len(schemas') > Len(schemas) =>
               /\ Len(schemas') = Len(schemas) + 1
               /\ ~DictHas(schemas, schemas'[Len(schemas')][1])]_vars

\* C29 witness: a load has returned to flatten_message after a call for a
\* document that imports itself and after a call, made from a document the
\* entry imports, for the entry that was still being loaded.
C29_Witness ==
    /\ pc = "seed"
    /\ \E j \in DOMAIN schemas :
         /\ \E c \in FollowedImports(schemas[j][1]) : AbsPath(c.schemaLocation) = schemas[j][1]
         /\ schemas[j][1] \in Range(schemas[j][2].imports)
    /\ \E j \in DOMAIN schemas : \E c \in FollowedImports(schemas[j][1]) :
         /\ j > 1
         /\ AbsPath(c.schemaLocation) = schemas[1][1]
         /\ schemas[1][1] \in Range(schemas[j][2].imports)

\* ------------------------------------------------------------ origin lookup
\* C30: the origin lookup never fails and picks the contributing document.
\* For every key of the global table the origin scan returns a stored
\* document; the definitions of that document hold, under the key, the very
\* element the global table holds, which is an element of that document's
\* tree; and every key find_used_definitions, the plan and the emission look
\* up is a key of the table, so that no "origin not found" branch is taken.
C30_OriginFound ==
    /\ \A k \in DictKeys(global_definitions) :
         /\ OriginOf(k) # None
         /\ DictHas(schemas, OriginOf(k))
         /\ DictHas(SchemaAt(OriginOf(k)).definitions, k)
         /\ DictGet(SchemaAt(OriginOf(k)).definitions, k) = DictGet(global_definitions, k)
         /\ DictGet(global_definitions, k)[1] = OriginOf(k)
    /\ \A k \in used_keys \cup Range(queue) :
         DictHas(global_definitions, k) /\ OriginOf(k) # None

\* C30 witness: find_used_definitions has returned a set with a key that two
\* stored documents define with different elements; the document stored
\* first is not the one whose element the global table holds, and the scan
\* has passed it over.
C30_Witness ==
    /\ FindFinished
    /\ \E k \in used_keys : \E d, i \in DOMAIN schemas :
         /\ d < i
         /\ DictHas(schemas[d][2].definitions, k)
         /\ DictHas(schemas[i][2].definitions, k)
         /\ DictGet(schemas[d][2].definitions, k) # DictGet(global_definitions, k)
         /\ DictGet(schemas[i][2].definitions, k) = DictGet(global_definitions, k)
         /\ OriginOf(k) = schemas[i][1]

====
